---- MODULE Spec2Model ----
(***************************************************************************)
(* geo-voice: the RecordView capture session (start / stop handlers, the   *)
(* elapsed timer, the MediaRecorder / Web Audio / VoiceRecorder backends)  *)
(* and the notes index, as found in the three revisions of App.tsx kept in *)
(* the repository:                                                         *)
(*   "app" = src/src/App.tsx       (MediaRecorder, fixed audio/webm)       *)
(*   "p0"  = src/unnamed/part_000  (iOS diagnostics, inline negotiation)   *)
(*   "p1"  = src/unnamed/part_001  (pickSupportedType + WAV fallback)      *)
(* Every await of a handler is a suspension point: a handler invocation is *)
(* a task whose pc names the await it is suspended at.                     *)
(*                                                                         *)
(* Spec is the whole of App: the two mount effects (App's readNotes, the   *)
(* RecordView's location prefetch), the tab bar that unmounts and remounts *)
(* the RecordView, the capture session, and part_000's diagnostics panel.  *)
(* Its state space at these bounds is some ten million states.  The        *)
(* properties are stated over parts of it that keep its steps:             *)
(*   SpecSession   the session with both mount effects completed, the user *)
(*                 staying on the Record tab (tab navigation is outside    *)
(*                 the specification's scope)                              *)
(*   SpecLoad      the session with App's mount read still pending         *)
(*   SpecPrefetch  the session with the location prefetch still pending    *)
(*   SpecApi       the session, stop() callable while nothing is recorded  *)
(*   SpecSampler   part_001's raw fallback path, from the first render     *)
(*   SpecPick, SpecB64, SpecWav, SpecMap   pickSupportedType,              *)
(*                 toBase64Standard, encodeWav, MapView's two lists        *)
(***************************************************************************)
EXTENDS Integers, Sequences, FiniteSets, TLC

\* ------------------------------------------------------------------ bounds
MaxCalls == 3        \* handler invocations (button presses) per behaviour
MaxTicks == 1        \* timer periods the clock advances through
MaxBlocks == 1       \* sample blocks one audio graph delivers
MaxThrows == 1       \* candidates on which isTypeSupported may throw (SpecPick)

\* ------------------------------------------------------- program constants
TickMs == 200        \* setInterval period of startTimer
DefaultSampleRate == 44100
BlockLen == 4096     \* createScriptProcessor(4096, 1, 1)
WavHeaderLen == 44

Tasks == 1..MaxCalls
Builds == {"app", "p0", "p1"}
Platforms == {"web", "ios", "android"}

\* part_001:104-113
CANDIDATE_TYPES ==
  << "audio/mp4;codecs=mp4a.40.2", "audio/mp4", "audio/aac",
     "audio/webm;codecs=opus", "audio/webm", "audio/ogg;codecs=opus", "audio/ogg" >>

\* part_000:211
candidates ==
  << "audio/mp4;codecs=mp4a.40.2", "audio/webm;codecs=opus", "audio/webm",
     "audio/ogg;codecs=opus", "audio/ogg" >>

CandSet == { CANDIDATE_TYPES[i] : i \in 1..Len(CANDIDATE_TYPES) }

\* ------------------------------------------------------------ environment
\* What the browser can record (MediaRecorder.isTypeSupported), what its
\* <audio> element can play (canPlayType), and where isTypeSupported throws.
NoCaps == [hasMR |-> FALSE, rec |-> {}, play |-> {}, throws |-> {}, sampleRate |-> DefaultSampleRate]

ChromeCaps ==
  [hasMR |-> TRUE,
   rec |-> {"audio/webm;codecs=opus", "audio/webm"},
   play |-> {"audio/webm;codecs=opus", "audio/webm", "audio/ogg;codecs=opus", "audio/ogg", "audio/mp4"},
   throws |-> {}, sampleRate |-> 48000]

\* records only a container its own <audio> element rejects
MismatchCaps ==
  [hasMR |-> TRUE, rec |-> {"audio/webm"}, play |-> {"audio/mp4", "audio/aac"},
   throws |-> {}, sampleRate |-> DefaultSampleRate]

\* no MediaRecorder at all (older WebKit)
NoRecorderCaps ==
  [hasMR |-> FALSE, rec |-> {}, play |-> {"audio/mp4", "audio/aac"},
   throws |-> {}, sampleRate |-> 48000]

WebEnvs == {ChromeCaps, MismatchCaps, NoRecorderCaps}

\* ------------------------------------------------------ pure functions
\* part_001:98-102
canPlay(mime, caps) == mime \in caps.play

\* one iteration of the loop body (try { if (isTypeSupported(t) && canPlay(t)) return t } catch {})
TypeAccepted(t, caps) ==
  /\ t \notin caps.throws
  /\ t \in caps.rec
  /\ canPlay(t, caps)

RECURSIVE FirstAcceptedFrom(_, _, _)
FirstAcceptedFrom(list, i, caps) ==
  IF i > Len(list) THEN ""
  ELSE IF TypeAccepted(list[i], caps) THEN list[i]
  ELSE FirstAcceptedFrom(list, i + 1, caps)

\* mutants of the scan
LastAcceptedFrom(list, i, caps) ==
  LET ok == { j \in i..Len(list) : TypeAccepted(list[j], caps) }
  IN IF ok = {} THEN "" ELSE list[CHOOSE j \in ok : \A k \in ok : k <= j]

FirstRecordableFrom(list, i, caps) ==
  LET ok == { j \in i..Len(list) : list[j] \in caps.rec /\ list[j] \notin caps.throws }
  IN IF ok = {} THEN "" ELSE list[CHOOSE j \in ok : \A k \in ok : j <= k]

ScanTypes(list, i, caps) == FirstAcceptedFrom(list, i, caps)

\* part_001:115-126
pickSupportedType(caps) ==
  IF ~caps.hasMR THEN "" ELSE ScanTypes(CANDIDATE_TYPES, 1, caps)

\* part_000:212-217 (only reached when window.MediaRecorder exists)
chosenInline(caps) == ScanTypes(candidates, 1, caps)

\* String.prototype.includes over the mime strings that occur: the extension
\* keywords each of them contains
MimeParts(m) ==
  CASE m \in {"audio/mp4;codecs=mp4a.40.2", "audio/mp4"} -> {"mp4"}
    [] m = "audio/aac" -> {"aac"}
    [] m \in {"audio/ogg;codecs=opus", "audio/ogg"} -> {"ogg"}
    [] m = "audio/wav" -> {"wav"}
    [] m = "audio/mp3" -> {"mp3"}
    [] OTHER -> {}
Includes(m, part) == part \in MimeParts(m)

\* part_001:128-134
mimeToExtP1(m) ==
  IF m = "" THEN "webm"
  ELSE IF Includes(m, "mp4") THEN "m4a"
  ELSE IF Includes(m, "aac") THEN "aac"
  ELSE IF Includes(m, "ogg") THEN "ogg"
  ELSE "webm"

\* part_000:107-114
mimeToExtP0(m) ==
  IF m = "" THEN "webm"
  ELSE IF Includes(m, "mp4") THEN "m4a"
  ELSE IF Includes(m, "aac") THEN "aac"
  ELSE IF Includes(m, "ogg") THEN "ogg"
  ELSE IF Includes(m, "wav") THEN "wav"
  ELSE "webm"

\* App.tsx:282, part_001:367
nativeExt(m) ==
  IF Includes(m, "mp3") THEN "mp3" ELSE IF Includes(m, "wav") THEN "wav" ELSE "m4a"


\* ------------------------------------------------------------------ state
VARIABLES
  build,            \* which revision of App.tsx runs
  platform,         \* Capacitor.getPlatform()
  caps,             \* browser capabilities (web)
  pluginAvailable,  \* Capacitor.isPluginAvailable("VoiceRecorder") / plugin linked
  tab,              \* useState slot of App: the view on screen
  inst,             \* the RecordView instance last mounted (0: first render, else the press that mounted it)
  mount,            \* mount effects still awaiting: App's readNotes(), each RecordView's prefetch
  isRecording, elapsed, status, uiStatus,   \* useState slots of the RecordView on screen
  refs,             \* the useRef slots of the RecordView on screen (.current of each)
  gone,             \* the useRef slots of the RecordView instances that were unmounted
  dev,              \* streams, recorders, audio graphs, interval timers, native recorder
  now,              \* Date.now()
  files,            \* audio files written through Filesystem.writeFile
  index,            \* notesIndex.json: [present, notes]
  notes,            \* useState slot of App
  pendingResets,    \* setTimeout(() => setStatus(null), ...) not yet fired
  task,             \* handler invocations: kind, pc (the await it is suspended at), locals
  calls,            \* handler invocations so far
  uuidCount         \* uuidv4() values handed out

cfgVars == <<build, platform, caps, pluginAvailable>>
shellVars == <<tab, inst, mount>>
uiVars == <<isRecording, elapsed, status, uiStatus>>
refVars == <<refs, gone>>
storeVars == <<files, index, notes>>
vars == <<build, platform, caps, pluginAvailable, tab, inst, mount,
          isRecording, elapsed, status, uiStatus,
          refs, gone, dev, now, files, index, notes, pendingResets, task, calls, uuidCount>>

Insts == 0..MaxCalls

NoPos == [ok |-> FALSE, lat |-> 0, lon |-> 0]
\* what a location lookup of start() or stop() may resolve with (a fix other than the
\* one the mount-time prefetch stores)
Positions == { [ok |-> TRUE, lat |-> 10, lon |-> 20] }

\* what the mount-time prefetch may resolve with (App.tsx:147-160, part_000:158-160,
\* part_001:232-245)
MountPos == [ok |-> TRUE, lat |-> 42, lon |-> 83]

NoBlob == [type |-> "", size |-> 0, parts |-> <<>>]
NoResult == [data |-> <<>>, ms |-> -1, mime |-> ""]
NoPath == [id |-> 0, ext |-> ""]
NoNote == [id |-> 0]

\* what an earlier run of the application may have left in Directory.Data: one record
\* and its payload (the store outlives the process; ids already handed out are used up)
NoIndex == [present |-> FALSE, notes |-> <<>>]
OldNote ==
  [id |-> 1, filePath |-> [id |-> 1, ext |-> "wav"], webPath |-> [kind |-> "file", type |-> ""],
   createdAt |-> 0, lat |-> 42, lon |-> 83, label |-> 0, durationMs |-> 4200,
   mimeType |-> "audio/wav"]
OldFile ==
  [path |-> OldNote.filePath, size |-> 4,
   content |-> IF platform = "web" THEN << [src |-> 0, n |-> 1, len |-> 4] >>
               ELSE << "A", "A", "A", "A" >>]
OldIndex == [present |-> TRUE, notes |-> << OldNote >>]

DefaultTask ==
  [kind |-> "none", pc |-> "none", out |-> "none",
   inst |-> 0,            \* the RecordView instance whose render created the closure
   atStatus |-> "", atRecording |-> FALSE, atBusy |-> FALSE, sess |-> 0,
   fb |-> FALSE, mr |-> 0, ec |-> 0, pos |-> NoPos,
   blob |-> NoBlob, b64 |-> <<>>, ms |-> -1, mime |-> "", id |-> 0, path |-> NoPath,
   webPath |-> [kind |-> "", type |-> ""], note |-> NoNote, existing |-> <<>>,
   snap |-> NoPos,        \* start: what its own location lookup returned
   owner |-> 0,           \* stop: the start() whose session it finalizes
   fin |-> NoPos,         \* stop: what its own location lookup at finalize returned
   atIndex |-> NoIndex, atNotes |-> <<>>,   \* stop: the store when it was invoked
   arg |-> <<>>, rate |-> 0, ret |-> <<>>]  \* a helper called alone: argument(s), result

InitRefs ==
  [timerRef |-> 0, positionRef |-> NoPos,
   mediaRecorderRef |-> 0, mediaStreamRef |-> 0, mediaChunksRef |-> <<>>, mimeTypeRef |-> "",
   wavUseFallbackRef |-> FALSE, audioCtxRef |-> 0, sourceNodeRef |-> 0, procNodeRef |-> 0,
   pcmBuffersRef |-> <<>>, sampleRateRef |-> DefaultSampleRate]

InitDev ==
  [streamLive |-> [t \in Tasks |-> FALSE],
   recState |-> [t \in Tasks |-> "none"],
   recOnstop |-> [t \in Tasks |-> 0],
   ctxState |-> [t \in Tasks |-> "none"],
   procConn |-> [t \in Tasks |-> FALSE],
   srcConn |-> [t \in Tasks |-> FALSE],
   blocksOut |-> [t \in Tasks |-> 0],
   timerLive |-> [t \in Tasks |-> FALSE],
   timerT0 |-> [t \in Tasks |-> 0],
   nativeRecording |-> FALSE,
   micState |-> "prompt"]

\* App.tsx:50-60, part_000:65-74, part_001:50-59: what readNotes() returns for a store
\* holding ix; Filesystem.readFile rejecting (no file, I/O error) or JSON.parse throwing
\* (readable = FALSE) ends in the catch, which returns []
readNotesOf(ix, readable) == IF ix.present /\ readable THEN ix.notes ELSE <<>>

\* the first render: both mount effects have run up to their first await
\*   App:        const n = await readNotes(); setNotes(n)      (App.tsx:454-459,
\*               part_000:382, part_001:470); the read was issued against the store
\*               as it is at mount
\*   RecordView: the location prefetch (App.tsx:147-160, part_000:158-173, part_001:232-245)
MountEffects(readDone, geoDone, n) ==
  [read |-> IF readDone THEN "done" ELSE "pending",
   n |-> IF readDone THEN <<>> ELSE n,
   geo |-> [i \in Insts |-> IF i # 0 THEN "none"
                            ELSE IF geoDone THEN "done" ELSE "pending"]]

\* App and its RecordView over a store that is empty or holds one record of an earlier
\* run.  readDone: App's mount read has resumed and App holds what it returned;
\* geoDone: the prefetch has resumed, having stored a fix or failed.
Mounting(readDone, geoDone) ==
  /\ tab = "record" /\ inst = 0
  /\ isRecording = FALSE /\ elapsed = 0 /\ status = "NULL" /\ uiStatus = "IDLE"
  /\ \E p \in (IF geoDone THEN {NoPos, MountPos} ELSE {NoPos}) :
       refs = [InitRefs EXCEPT !.positionRef = p]
  /\ gone = [i \in Insts |-> InitRefs]
  /\ now = 0
  /\ \E stored \in BOOLEAN, readable \in BOOLEAN :
       /\ files = (IF stored THEN {OldFile} ELSE {})
       /\ index = (IF stored THEN OldIndex ELSE NoIndex)
       /\ notes = (IF readDone THEN readNotesOf(index, readable)
                   ELSE <<>>)                         \* useState<Note[]>([])
       /\ mount = MountEffects(readDone, geoDone, readNotesOf(index, readable))
       /\ uuidCount = (IF stored THEN 1 ELSE 0)
  /\ pendingResets = 0
  /\ task = [t \in Tasks |-> DefaultTask]
  /\ calls = 0

InitCommon ==
  /\ build \in Builds
  /\ platform \in Platforms
  /\ Mounting(FALSE, FALSE)

\* the environment the bundle runs in: a browser with its recorder and player, or a
\* native shell with or without the VoiceRecorder plugin and a microphone permission
InitEnv ==
  IF platform = "web"
    THEN /\ caps \in WebEnvs
         /\ pluginAvailable = FALSE
         /\ dev = InitDev
    ELSE /\ caps = NoCaps
         /\ pluginAvailable \in BOOLEAN
         /\ dev \in { [InitDev EXCEPT !.micState = m] : m \in {"prompt", "granted"} }

Init == InitCommon /\ InitEnv

\* ---------------------------------------------------------------- helpers
IsWeb == platform = "web"
IsIos == platform = "ios"
InFlight(t) == task[t].kind # "none" /\ task[t].pc # "done"
Busy == \E t \in Tasks : InFlight(t)

\* The refs and the state setters a closure uses are those of the RecordView instance
\* whose render created it.  Once that instance is unmounted its refs live on for the
\* closures that hold them, and its state setters change nothing.
OnScreen(i) == tab = "record" /\ inst = i
RefsOf(i) == IF OnScreen(i) THEN refs ELSE gone[i]
PutRefs(i, r) ==
  IF OnScreen(i) THEN refs' = r /\ UNCHANGED gone
  ELSE gone' = [gone EXCEPT ![i] = r] /\ UNCHANGED refs
Mounted(t) == OnScreen(task[t].inst)
RefsIn(t) == RefsOf(task[t].inst)
SetUi(t, ir, el, st, us) ==
  IF Mounted(t)
    THEN isRecording' = ir /\ elapsed' = el /\ status' = st /\ uiStatus' = us
    ELSE UNCHANGED uiVars
\* setTimeout(() => setStatus(null), ...) scheduled by invocation t
SetResetTimeout(t) ==
  pendingResets' = IF Mounted(t) THEN pendingResets + 1 ELSE pendingResets

\* a finished invocation keeps what it was and how it ended; its locals are dropped
\* (a start() that opened a session also keeps the location snapshot it took, a
\* stop() that threw the payload it had been handed)
DoneOf(rec, outcome) ==
  [DefaultTask EXCEPT !.kind = rec.kind, !.pc = "done", !.out = outcome,
                      !.inst = rec.inst,
                      !.atStatus = rec.atStatus, !.atRecording = rec.atRecording,
                      !.atBusy = rec.atBusy, !.sess = rec.sess,
                      !.snap = IF outcome = "recording" THEN rec.snap ELSE NoPos,
                      !.arg = IF outcome = "failed" THEN rec.arg ELSE <<>>]
Done(t, outcome) == DoneOf(task[t], outcome)

\* App.tsx:162-167, part_000:175, part_001:247-252
startTimerNoClear(d, t) ==
  [d EXCEPT !.timerLive[t] = TRUE, !.timerT0[t] = now]
startTimer(d, t) == startTimerNoClear(d, t)

\* App.tsx:169-172, part_000:176, part_001:254-257
stopTimerLeak(d, r) == d
stopTimerClear(d, r) ==
  IF r.timerRef # 0 THEN [d EXCEPT !.timerLive[r.timerRef] = FALSE] ELSE d
stopTimer(d, r) == stopTimerClear(d, r)

\* the cause the catch block of start() shows: setStatus(err?.message || "FAILED_TO_RECORD")
\* in part_000:229, setStatus("FAILED_TO_RECORD") in App.tsx:211 and part_001:306
StartCatchStatus(msg) == IF build = "p0" THEN msg ELSE "FAILED_TO_RECORD"

\* the catch block of start(): App.tsx:209-212, part_000:228-230, part_001:305-307
StartCatch(t, msg) ==
  /\ SetUi(t, isRecording, elapsed, StartCatchStatus(msg), "FAILED_TO_RECORD")
  /\ task' = [task EXCEPT ![t] = Done(t, "failed")]

\* an early "set status and return" of start(): part_000:187, 191, 200, 208, 226
StartBail(t, msg) ==
  /\ SetUi(t, isRecording, elapsed, msg, "FAILED_TO_RECORD")
  /\ task' = [task EXCEPT ![t] = Done(t, "failed")]

\* setIsRecording(true); setUiStatus("RECORDING"); setElapsed(0); startTimer()
StartSucceeds(t) ==
  /\ SetUi(t, TRUE, 0, status, "RECORDING")
  /\ task' = [task EXCEPT ![t] = Done(t, "recording")]

\* ------------------------------------------------------------ mount effects
\* App's mount effect resumes: setNotes(n) with what the read issued at mount returned
MountRead ==
  /\ mount.read = "pending"
  /\ notes' = mount.n
  /\ mount' = [mount EXCEPT !.read = "done", !.n = <<>>]
  /\ UNCHANGED <<cfgVars, tab, inst, uiVars, refVars, dev, now, files, index,
                 pendingResets, task, calls, uuidCount>>

\* the location prefetch of RecordView instance i resumes: it stores the fix, or a
\* rejection (of checkPermissions, requestPermissions or getCurrentPosition) is ignored
MountGeo(i) ==
  /\ mount.geo[i] = "pending"
  /\ mount' = [mount EXCEPT !.geo[i] = "done"]
  /\ \E p \in {NoPos, MountPos} :
       IF p.ok THEN PutRefs(i, [RefsOf(i) EXCEPT !.positionRef = p])
       ELSE UNCHANGED refVars
  /\ UNCHANGED <<cfgVars, tab, inst, uiVars, dev, now, storeVars,
                 pendingResets, task, calls, uuidCount>>

\* --------------------------------------------------------------- the tabs
\* TabBar "Map" (setTab("map")): App renders MapView in place of RecordView
\* (App.tsx:467, part_000:386, part_001:475).  The RecordView is unmounted with no
\* cleanup: its recorder, stream, audio graph and interval timer go on, and so do its
\* handler invocations, with the refs they hold.
ClickMap ==
  /\ calls < MaxCalls
  /\ tab = "record"
  /\ LET t == calls + 1 IN
     /\ tab' = "map"
     /\ gone' = [gone EXCEPT ![inst] = refs]
     /\ refs' = InitRefs
     /\ isRecording' = FALSE /\ elapsed' = 0 /\ status' = "NULL" /\ uiStatus' = "IDLE"
     /\ pendingResets' = 0
     /\ task' = [task EXCEPT ![t] =
                   [DefaultTask EXCEPT !.kind = "tab", !.pc = "done", !.out = "map",
                                       !.inst = inst]]
     /\ calls' = t
  /\ UNCHANGED <<cfgVars, inst, mount, dev, now, storeVars, uuidCount>>

\* TabBar "Record" (setTab("record")): a new RecordView is mounted, with fresh state
\* and refs, and its mount effect starts the location prefetch
ClickRecord ==
  /\ calls < MaxCalls
  /\ tab = "map"
  /\ LET t == calls + 1 IN
     /\ tab' = "record"
     /\ inst' = t
     /\ mount' = [mount EXCEPT !.geo[t] = "pending"]
     /\ task' = [task EXCEPT ![t] =
                   [DefaultTask EXCEPT !.kind = "tab", !.pc = "done", !.out = "record",
                                       !.inst = t]]
     /\ calls' = t
  /\ UNCHANGED <<cfgVars, uiVars, refVars, dev, now, storeVars, pendingResets, uuidCount>>

\* ------------------------------------------------------------------ start
\* The button runs start when the rendered isRecording is false
\* (App.tsx:327, part_000:308, part_001:384).  start() itself has no guard:
\* it runs setStatus(null) and suspends at the location lookup.
ClickStart ==
  /\ calls < MaxCalls
  /\ tab = "record"
  /\ ~isRecording
  /\ LET t == calls + 1 IN
     /\ task' = [task EXCEPT ![t] =
                   [DefaultTask EXCEPT !.kind = "start", !.pc = "s_geo", !.inst = inst,
                                       !.atStatus = uiStatus, !.atRecording = isRecording,
                                       !.atBusy = Busy]]
     /\ calls' = t
     /\ status' = "NULL"
  /\ UNCHANGED <<cfgVars, shellVars, isRecording, elapsed, uiStatus, refVars, dev, now,
                 storeVars, pendingResets, uuidCount>>

\* whether a rejected lookup leaves the inner try of start():
\*   try { const pos = await Geolocation.getCurrentPosition(...); ... } catch {}
\*   (App.tsx:179-182, part_000:181, part_001:263-266)
snapshotUncaught(p) == ~p.ok
snapshotCaught(p) == FALSE
snapshotThrows(p) == snapshotCaught(p)

\* await Geolocation.getCurrentPosition resumes (resolved with p, or rejected and
\* swallowed), then start() runs on to its next await.
StartGeo(t) ==
  /\ task[t].kind = "start" /\ task[t].pc = "s_geo"
  /\ \E p \in {NoPos} \cup Positions :
       /\ IF p.ok THEN PutRefs(task[t].inst, [RefsIn(t) EXCEPT !.positionRef = p])
          ELSE UNCHANGED refVars
       /\ IF snapshotThrows(p) THEN StartCatch(t, "LOCATION_UNAVAILABLE")
          ELSE IF IsWeb
            THEN IF build = "p0" /\ ~caps.hasMR
                   THEN StartBail(t, "WEB_NO_MEDIARECORDER")
                   ELSE /\ task' = [task EXCEPT ![t].pc = "s_gum", ![t].snap = p]
                        /\ UNCHANGED uiVars
            ELSE IF build = "p0"
                   THEN IF IsIos /\ ~pluginAvailable
                          THEN StartBail(t, "IOS_PLUGIN_NOT_LINKED")
                          ELSE /\ task' = [task EXCEPT ![t].pc = "s_has", ![t].snap = p]
                               /\ UNCHANGED uiVars
                   ELSE /\ task' = [task EXCEPT ![t].pc = "s_req", ![t].snap = p]
                        /\ UNCHANGED uiVars
  /\ UNCHANGED <<cfgVars, shellVars, dev, now, storeVars, pendingResets, calls, uuidCount>>

\* the synchronous rest of the web path once getUserMedia has resolved with stream t
WebRecorderStart(t, chosen, label) ==
  /\ PutRefs(task[t].inst,
             [RefsIn(t) EXCEPT !.mimeTypeRef = label, !.mediaChunksRef = <<>>,
                          !.mediaRecorderRef = t, !.mediaStreamRef = t,
                          !.wavUseFallbackRef = IF build = "p1" THEN FALSE ELSE @,
                          !.timerRef = t])
  /\ dev' = startTimer([dev EXCEPT !.streamLive[t] = TRUE, !.recState[t] = "recording"], t)
  /\ StartSucceeds(t)

WavFallbackStart(t) ==
  /\ PutRefs(task[t].inst,
             [RefsIn(t) EXCEPT !.pcmBuffersRef = <<>>, !.sampleRateRef = caps.sampleRate,
                          !.audioCtxRef = t, !.sourceNodeRef = t, !.procNodeRef = t,
                          !.mediaStreamRef = t, !.wavUseFallbackRef = TRUE,
                          !.mimeTypeRef = "audio/wav", !.timerRef = t])
  /\ dev' = startTimer([dev EXCEPT !.streamLive[t] = TRUE, !.ctxState[t] = "running",
                                   !.srcConn[t] = TRUE, !.procConn[t] = TRUE], t)
  /\ StartSucceeds(t)

\* what start() does with the negotiation result: part_001:270-296
NegotiatedStartSkipFallback(t) ==
  WebRecorderStart(t, pickSupportedType(caps),
                   IF pickSupportedType(caps) # "" THEN pickSupportedType(caps) ELSE "audio/webm")
NegotiatedStartP1(t) ==
  IF pickSupportedType(caps) # ""
    THEN WebRecorderStart(t, pickSupportedType(caps), pickSupportedType(caps))
    ELSE WavFallbackStart(t)
NegotiatedStart(t) == NegotiatedStartP1(t)

\* part_000:210-222
InlineStart(t) ==
  WebRecorderStart(t, chosenInline(caps),
                   IF chosenInline(caps) # "" THEN chosenInline(caps) ELSE "audio/webm")

\* await navigator.mediaDevices.getUserMedia rejects
StartGumRejected(t) ==
  /\ task[t].kind = "start" /\ task[t].pc = "s_gum"
  /\ StartCatch(t, "NotAllowedError")
  /\ UNCHANGED <<cfgVars, shellVars, refVars, dev, now, storeVars, pendingResets, calls, uuidCount>>

\* await navigator.mediaDevices.getUserMedia resolves
StartGumResolved(t) ==
  /\ task[t].kind = "start" /\ task[t].pc = "s_gum"
  /\ CASE build = "p1" -> NegotiatedStart(t)
       [] build = "p0" -> InlineStart(t)
       [] build = "app" ->
            IF caps.hasMR
              THEN WebRecorderStart(t, "", RefsIn(t).mimeTypeRef)
              ELSE \* new MediaRecorder(stream) throws: the stream stays open
                   /\ dev' = [dev EXCEPT !.streamLive[t] = TRUE]
                   /\ StartCatch(t, "MediaRecorder is not defined")
                   /\ UNCHANGED refVars
  /\ UNCHANGED <<cfgVars, shellVars, now, storeVars, pendingResets, calls, uuidCount>>


\* ----------------------------------------------------------- native start
\* VoiceRecorder.requestAudioRecordingPermission(): the user answers a prompt once
MicAfterRequest(m) == IF m = "prompt" THEN {"granted", "denied"} ELSE {m}

\* part_000:190-191 (iOS), part_000:226 (Android): await hasAudioRecordingPermission()
StartHas(t) ==
  /\ task[t].kind = "start" /\ task[t].pc = "s_has"
  /\ IF ~pluginAvailable
       THEN \* Android without the plugin: the call rejects into the outer catch
            StartCatch(t, "VoiceRecorder plugin is not implemented")
       ELSE /\ task' = [task EXCEPT ![t].pc =
                          IF dev.micState = "granted" THEN "s_rec" ELSE "s_req"]
            /\ UNCHANGED uiVars
  /\ UNCHANGED <<cfgVars, shellVars, refVars, dev, now, storeVars, pendingResets, calls, uuidCount>>

\* what start() does with the answer of requestAudioRecordingPermission()
\*   part_000:191 / 226 return on asked.value = false;
\*   App.tsx:203 and part_001:302 await the call and ignore its value
PermissionAnswerIgnored(t, granted) ==
  /\ task' = [task EXCEPT ![t].pc = "s_rec"]
  /\ UNCHANGED uiVars
PermissionAnswerChecked(t, granted) ==
  IF granted
    THEN /\ task' = [task EXCEPT ![t].pc = "s_rec"]
         /\ UNCHANGED uiVars
    ELSE StartBail(t, IF IsIos THEN "IOS_MIC_PERMISSION_DENIED" ELSE "MIC_PERMISSION_DENIED")
PermissionAnswer(t, granted) ==
  IF build = "p0" THEN PermissionAnswerChecked(t, granted)
  ELSE PermissionAnswerIgnored(t, granted)

StartReq(t) ==
  /\ task[t].kind = "start" /\ task[t].pc = "s_req"
  /\ IF ~pluginAvailable
       THEN /\ StartCatch(t, "VoiceRecorder plugin is not implemented")
            /\ UNCHANGED dev
       ELSE \E m \in MicAfterRequest(dev.micState) :
              /\ dev' = [dev EXCEPT !.micState = m]
              /\ PermissionAnswer(t, m = "granted")
  /\ UNCHANGED <<cfgVars, shellVars, refVars, now, storeVars, pendingResets, calls, uuidCount>>

\* await VoiceRecorder.startRecording() rejects: no permission, already recording,
\* or the device refuses
startRecordingError(d) ==
  IF d.micState # "granted" THEN "MISSING_PERMISSION"
  ELSE IF d.nativeRecording THEN "ALREADY_RECORDING"
  ELSE "FAILED_TO_RECORD"

StartRecRejected(t) ==
  /\ task[t].kind = "start" /\ task[t].pc = "s_rec"
  /\ IF build = "p0" /\ IsIos THEN StartBail(t, startRecordingError(dev))
     ELSE StartCatch(t, startRecordingError(dev))
  /\ UNCHANGED <<cfgVars, shellVars, refVars, dev, now, storeVars, pendingResets, calls, uuidCount>>

\* await VoiceRecorder.startRecording() resolves
StartRecResolved(t) ==
  /\ task[t].kind = "start" /\ task[t].pc = "s_rec"
  /\ dev.micState = "granted" /\ ~dev.nativeRecording
  /\ dev' = startTimer([dev EXCEPT !.nativeRecording = TRUE], t)
  /\ PutRefs(task[t].inst, [RefsIn(t) EXCEPT !.timerRef = t])
  /\ StartSucceeds(t)
  /\ UNCHANGED <<cfgVars, shellVars, now, storeVars, pendingResets, calls, uuidCount>>

\* ------------------------------------------------------ timers and devices
Advance ==
  /\ now < MaxTicks * TickMs
  /\ now' = now + TickMs
  /\ UNCHANGED <<cfgVars, shellVars, uiVars, refVars, dev, storeVars, pendingResets, task,
                 calls, uuidCount>>

\* the setInterval callback of the timer created by start task t: setElapsed of the
\* RecordView that created it
TimerTick(t) ==
  /\ dev.timerLive[t]
  /\ Mounted(t)
  /\ elapsed' = now - dev.timerT0[t]
  /\ elapsed' # elapsed
  /\ UNCHANGED <<cfgVars, shellVars, isRecording, status, uiStatus, refVars, dev, now,
                 storeVars, pendingResets, task, calls, uuidCount>>

\* setTimeout(() => setStatus(null), ...)
StatusReset ==
  /\ pendingResets > 0
  /\ pendingResets' = pendingResets - 1
  /\ status' = "NULL"
  /\ UNCHANGED <<cfgVars, shellVars, isRecording, elapsed, uiStatus, refVars, dev, now,
                 storeVars, task, calls, uuidCount>>

\* The audio subsystem fills one input buffer per graph again and again: after k
\* deliveries the buffer of graph c holds quantum k (dev.blocksOut[c]).  A stored
\* block is either a copy, holding the quantum it was made from (n = k), or the
\* delivered buffer itself (n = 0), which reads as whatever the subsystem wrote last.
\*   pcmBuffersRef.current.push(new Float32Array(ch0))   part_001:289
blockAlias(c, k) == [src |-> c, n |-> 0, len |-> BlockLen]
blockCopy(c, k) == [src |-> c, n |-> k, len |-> BlockLen]
storedBlock(c, k) == blockCopy(c, k)

\* the samples a stored block holds, as a reader finds them (merged.set(b, offset))
BlockData(b, d) == IF b.n = 0 THEN d.blocksOut[b.src] ELSE b.n
ReadBlocks(blocks, d) == [i \in 1..Len(blocks) |-> [blocks[i] EXCEPT !.n = BlockData(blocks[i], d)]]

\* proc.onaudioprocess of the graph built by start task t: part_001:287-290
AudioProcessUpTo(t, max) ==
  /\ dev.ctxState[t] = "running" /\ dev.procConn[t] /\ dev.srcConn[t] /\ dev.streamLive[t]
  /\ dev.blocksOut[t] < max
  /\ dev' = [dev EXCEPT !.blocksOut[t] = @ + 1]
  /\ PutRefs(task[t].inst,
             [RefsIn(t) EXCEPT !.pcmBuffersRef = Append(@, storedBlock(t, dev.blocksOut[t] + 1))])
  /\ UNCHANGED <<cfgVars, shellVars, uiVars, now, storeVars, pendingResets, task, calls, uuidCount>>
AudioProcess(t) == AudioProcessUpTo(t, MaxBlocks)

\* ------------------------------------------------------------------- stop
ChunkLen == 1000     \* bytes of a non-empty dataavailable chunk

RECURSIVE SumLen(_)
SumLen(parts) == IF parts = <<>> THEN 0 ELSE Head(parts).len + SumLen(Tail(parts))

\* part_001:137-170: the buffer is 44 + dataSize bytes, dataSize = 2 bytes per sample
encodeWavSize8(nSamples) == WavHeaderLen + nSamples
encodeWavSize(nSamples) == WavHeaderLen + nSamples * 2

\* the state setters of the catch blocks of stop(), for an invocation rec
SetFailed(rec, ir, msg) ==
  IF OnScreen(rec.inst)
    THEN /\ isRecording' = ir
         /\ uiStatus' = "FAILED_TO_RECORD"
         /\ status' = msg
         /\ UNCHANGED elapsed
    ELSE UNCHANGED uiVars
ResetTimeoutOf(rec) ==
  pendingResets' = IF OnScreen(rec.inst) THEN pendingResets + 1 ELSE pendingResets

\* the catch block of stop(): App.tsx:313-318, part_000:276, part_001:376-378
StopCatchKeepsRecording(t, rec, msg) ==
  /\ SetFailed(rec, isRecording, IF build = "p0" THEN msg ELSE "FAILED_TO_RECORD")
  /\ ResetTimeoutOf(rec)
  /\ task' = [task EXCEPT ![t] = DoneOf(rec, "failed")]
StopCatchOuter(t, rec, msg) ==
  /\ SetFailed(rec, FALSE, IF build = "p0" THEN msg ELSE "FAILED_TO_RECORD")
  /\ ResetTimeoutOf(rec)
  /\ task' = [task EXCEPT ![t] = DoneOf(rec, "failed")]

\* the inner catch of the iOS branch: part_000:257-259 (no setTimeout)
StopCatchIos(t, rec, msg) ==
  /\ SetFailed(rec, FALSE, msg)
  /\ task' = [task EXCEPT ![t] = DoneOf(rec, "failed")]
  /\ UNCHANGED pendingResets

StopCatch(t, rec, msg) ==
  IF build = "p0" /\ IsIos THEN StopCatchIos(t, rec, msg) ELSE StopCatchOuter(t, rec, msg)

\* stop() up to its first await.  stopTimer() runs first on every path.
\*   web recorder: App.tsx:219-227, part_000:263-265, part_001:316-321
\*   web fallback: part_001:323-325
\*   native:       App.tsx:272, part_000:237-243 / 271, part_001:363
StopInvoke(t, silentRestop) ==
  LET d0 == stopTimer(dev, refs)
      r0 == [refs EXCEPT !.timerRef = 0]
      t0 == [DefaultTask EXCEPT !.kind = "stop", !.inst = inst, !.atStatus = uiStatus,
                                !.atRecording = isRecording, !.atBusy = Busy,
                                !.sess = refs.mediaStreamRef, !.ec = elapsed,
                                !.owner = refs.timerRef,
                                !.atIndex = index, !.atNotes = notes]
      mr == refs.mediaRecorderRef
      ctx == refs.audioCtxRef
  IN
  /\ calls' = t
  /\ tab = "record"
  /\ refs' = r0
  /\ IF IsWeb
       THEN IF build = "p1" /\ refs.wavUseFallbackRef
              THEN \* disconnect the nodes, await audioCtx.close()
                   /\ dev' = [d0 EXCEPT !.procConn[refs.procNodeRef] = FALSE,
                                        !.srcConn[refs.sourceNodeRef] = FALSE,
                                        !.ctxState[ctx] = "closed"]
                   /\ task' = [task EXCEPT ![t] =
                                 [t0 EXCEPT !.fb = TRUE, !.mr = ctx,
                                            !.pc = IF dev.ctxState[ctx] = "running"
                                                     THEN "t_close" ELSE "t_closeRej"]]
                   /\ UNCHANGED <<uiVars, pendingResets>>
              ELSE IF mr = 0
                     THEN /\ dev' = d0
                          /\ StopCatch(t, t0, "No recorder")
                     ELSE IF dev.recState[mr] = "recording"
                            THEN /\ dev' = [d0 EXCEPT !.recOnstop[mr] = t, !.recState[mr] = "stopping"]
                                 /\ task' = [task EXCEPT ![t] = [t0 EXCEPT !.mr = mr, !.pc = "t_onstop"]]
                                 /\ UNCHANGED <<uiVars, pendingResets>>
                            ELSE \* mr.stop() on a recorder that is no longer recording:
                                 \* throws InvalidStateError, or (newer engines) returns silently
                                 IF silentRestop
                                   THEN /\ dev' = [d0 EXCEPT !.recOnstop[mr] = t]
                                        /\ task' = [task EXCEPT ![t] = [t0 EXCEPT !.mr = mr, !.pc = "t_onstop"]]
                                        /\ UNCHANGED <<uiVars, pendingResets>>
                                   ELSE /\ dev' = [d0 EXCEPT !.recOnstop[mr] = t]
                                        /\ StopCatch(t, t0, "InvalidStateError")
       ELSE IF build = "p0" /\ IsIos /\ ~pluginAvailable
              THEN /\ dev' = d0
                   /\ uiStatus' = "FAILED_TO_RECORD" /\ status' = "IOS_PLUGIN_NOT_LINKED"
                   /\ task' = [task EXCEPT ![t] = DoneOf(t0, "failed")]
                   /\ UNCHANGED <<isRecording, elapsed, pendingResets>>
              ELSE /\ dev' = d0
                   /\ task' = [task EXCEPT ![t] = [t0 EXCEPT !.pc = "t_nstop"]]
                   /\ UNCHANGED <<uiVars, pendingResets>>
  /\ UNCHANGED <<cfgVars, shellVars, gone, now, storeVars, uuidCount>>

\* The button runs stop when the rendered isRecording is true.
ClickStop ==
  /\ calls < MaxCalls
  /\ isRecording
  /\ \E silent \in BOOLEAN : StopInvoke(calls + 1, silent)

\* stop() called although nothing is being recorded (isRecording false)
CallStopIdle ==
  /\ calls < MaxCalls
  /\ ~isRecording
  /\ \E silent \in BOOLEAN : StopInvoke(calls + 1, silent)

\* ------------------------------------------------------- base64 helpers
\* strings are sequences of one-character strings; "data:...;base64," is one token
DataPrefix == "data:audio/aac;base64,"
Whitespace == {" ", "\n"}

MapChar(c) == IF c = "-" THEN "+" ELSE IF c = "_" THEN "/" ELSE c

RECURSIVE Repeat(_, _)
Repeat(c, n) == IF n <= 0 THEN <<>> ELSE <<c>> \o Repeat(c, n - 1)

\* App.tsx:83-90, part_000:91-98, part_001:82-89, up to the length test
b64Cleaned(input) ==
  LET noPrefix == IF input # <<>> /\ Head(input) = DataPrefix THEN Tail(input) ELSE input
      noWs == SelectSeq(noPrefix, LAMBDA c : c \notin Whitespace)
  IN [i \in 1..Len(noWs) |-> MapChar(noWs[i])]

b64NeverThrows(input) == FALSE
b64Throws(input) == Len(b64Cleaned(input)) % 4 = 1

toBase64Unpadded(input) == b64Cleaned(input)
toBase64Standard(input) ==
  LET b64 == b64Cleaned(input)
      pad == Len(b64) % 4
  IN IF pad > 0 THEN b64 \o Repeat("=", 4 - pad) ELSE b64

\* what VoiceRecorder.stopRecording() may resolve with (value.recordDataBase64,
\* value.msDuration, value.mimeType; -1 / "" stand for undefined)
NativeResults ==
  { [data |-> <<"A", "A", "-", "_", "A", "A", "A", "A">>, ms |-> 4200, mime |-> "audio/m4a"],
    [data |-> <<"A", "_", "\n", "-", "A", "A", "A">>, ms |-> -1, mime |-> ""],
    [data |-> <<>>, ms |-> 4200, mime |-> "audio/aac"],
    [data |-> <<"A", "A", "A", "A", "A">>, ms |-> 4200, mime |-> "audio/aac"] }

\* ------------------------------------------------------------ stop resumed
PosLat(p) == IF p.ok THEN p.lat ELSE 0
PosLon(p) == IF p.ok THEN p.lon ELSE 0

\* the Note literal: App.tsx:249-259 / 295-305, part_000:254 / 275 / 282,
\* part_001:343-353 / 373
BuildNote(rec, pos, wp) ==
  [id |-> rec.id, filePath |-> rec.path, webPath |-> wp, createdAt |-> now,
   lat |-> PosLat(pos), lon |-> PosLon(pos), label |-> now,
   durationMs |-> IF IsWeb THEN rec.ec ELSE IF rec.ms # -1 THEN rec.ms ELSE rec.ec,
   mimeType |-> IF ~IsWeb THEN rec.mime
                ELSE IF build = "app" THEN "audio/webm" ELSE rec.blob.type]

ReleaseStream(d, r) ==
  IF r.mediaStreamRef # 0 THEN [d EXCEPT !.streamLive[r.mediaStreamRef] = FALSE] ELSE d

\* whether the handler held by mr.onstop of recorder c belongs to a stop() that is
\* still waiting for it
Heard(c) ==
  LET h == dev.recOnstop[c]
  IN h # 0 /\ task[h].kind = "stop" /\ task[h].pc = "t_onstop" /\ task[h].mr = c

\* the recorder's stop event: the last chunk is delivered (if it holds data), then
\* mr.onstop resolves `finished` and stop() runs on to await blob.arrayBuffer()
\*   App.tsx:223-235, part_000:264-266 / 280, part_001:319-321 / 335
StopOnstop(t) ==
  /\ task[t].kind = "stop" /\ task[t].pc = "t_onstop"
  /\ dev.recState[task[t].mr] = "stopping"
  /\ dev.recOnstop[task[t].mr] = t
  /\ \E hasData \in BOOLEAN :
       LET mr == task[t].mr
           r == RefsIn(t)
           chunks == IF hasData
                       THEN Append(r.mediaChunksRef, [src |-> mr, n |-> 1, len |-> ChunkLen])
                       ELSE r.mediaChunksRef
           type == IF build = "app" THEN "audio/webm"
                   ELSE IF r.mimeTypeRef # "" THEN r.mimeTypeRef ELSE "audio/webm"
           d1 == [dev EXCEPT !.recState[mr] = "inactive"]
       IN /\ task' = [task EXCEPT ![t].pc = "t_buf",
                                  ![t].blob = [type |-> type, size |-> SumLen(chunks), parts |-> chunks],
                                  ![t].pos = IF build = "p0" THEN r.positionRef ELSE NoPos]
          /\ IF build = "p1"
               THEN /\ PutRefs(task[t].inst, [r EXCEPT !.mediaChunksRef = chunks])
                    /\ dev' = d1
               ELSE /\ PutRefs(task[t].inst,
                               [r EXCEPT !.mediaChunksRef = chunks,
                                         !.mediaRecorderRef = 0, !.mediaStreamRef = 0])
                    /\ dev' = ReleaseStream(d1, r)
  /\ UNCHANGED <<cfgVars, shellVars, uiVars, now, storeVars, pendingResets, calls, uuidCount>>

\* the recorder's dataavailable and stop events when the handler held by mr.onstop
\* belongs to a stop() that has returned already (it replaced the handler, then its
\* mr.stop() threw): mr.ondataavailable pushes the chunk (App.tsx:190-192, part_000:220,
\* part_001:275), the recorder is inactive, and resolve() is heard by nobody
RecorderStopUnheard(c) ==
  /\ dev.recState[c] = "stopping"
  /\ ~Heard(c)
  /\ dev' = [dev EXCEPT !.recState[c] = "inactive"]
  /\ \E hasData \in BOOLEAN :
       IF hasData
         THEN PutRefs(task[c].inst,
                      [RefsIn(c) EXCEPT !.mediaChunksRef =
                                      Append(@, [src |-> c, n |-> 1, len |-> ChunkLen])])
         ELSE UNCHANGED refVars
  /\ UNCHANGED <<cfgVars, shellVars, uiVars, now, storeVars, pendingResets, task, calls, uuidCount>>

\* await audioCtx.close() resolves: stop the tracks, merge and encode the PCM blocks
\*   part_001:326-335
StopCtxClosed(t) ==
  /\ task[t].kind = "stop" /\ task[t].pc = "t_close"
  /\ dev' = ReleaseStream(dev, RefsIn(t))
  /\ task' = [task EXCEPT ![t].pc = "t_buf",
                          ![t].blob = [type |-> "audio/wav",
                                       size |-> encodeWavSize(SumLen(RefsIn(t).pcmBuffersRef)),
                                       parts |-> ReadBlocks(RefsIn(t).pcmBuffersRef, dev)]]
  /\ UNCHANGED <<cfgVars, shellVars, uiVars, refVars, now, storeVars, pendingResets, calls, uuidCount>>

\* await audioCtx.close() rejects (the context was closed already)
StopCtxCloseRejected(t) ==
  /\ task[t].kind = "stop" /\ task[t].pc = "t_closeRej"
  /\ StopCatch(t, task[t], "InvalidStateError")
  /\ UNCHANGED <<cfgVars, shellVars, refVars, dev, now, storeVars, calls, uuidCount>>

\* uuidv4(): a value never handed out before
uuidReused == uuidCount
uuidFresh == uuidCount + 1
uuidv4 == uuidFresh

\* await blob.arrayBuffer() resolves: id, extension, file name, then await writeFile
\*   App.tsx:235-239, part_000:280-281, part_001:335-340
StopBuf(t) ==
  /\ task[t].kind = "stop" /\ task[t].pc = "t_buf"
  /\ LET id == uuidv4
         ext == CASE build = "app" -> "webm"
                  [] build = "p0" -> mimeToExtP0(task[t].blob.type)
                  [] build = "p1" -> IF ~RefsIn(t).wavUseFallbackRef
                                       THEN mimeToExtP1(task[t].blob.type) ELSE "wav"
     IN /\ uuidCount' = id
        /\ task' = [task EXCEPT ![t].pc = "t_wfile", ![t].id = id,
                                ![t].path = [id |-> id, ext |-> ext]]
  /\ UNCHANGED <<cfgVars, shellVars, uiVars, refVars, dev, now, storeVars, pendingResets, calls>>

\* await VoiceRecorder.stopRecording() resolves
\*   App.tsx:272-284, part_000:243-251 / 271-274, part_001:363-369
\* VoiceRecorder.stopRecording() resolves for the call that ends the recording; a
\* call made when nothing is being recorded rejects
stopRecordingResolvesAlways(d) == TRUE
stopRecordingResolves(d) == d.nativeRecording

StopNativeResolved(t) ==
  /\ task[t].kind = "stop" /\ task[t].pc = "t_nstop"
  /\ stopRecordingResolves(dev)
  /\ dev' = [dev EXCEPT !.nativeRecording = FALSE]
  /\ \E res \in NativeResults :
       LET mime == IF res.mime # "" THEN res.mime ELSE "audio/m4a"
           id == uuidv4
           ext == IF build = "p0" THEN mimeToExtP0(mime) ELSE nativeExt(mime)
           rec == [task[t] EXCEPT !.ms = res.ms, !.mime = mime, !.arg = res.data]
       IN IF res.data = <<>>
            THEN /\ StopCatch(t, rec, "No audio data")
                 /\ UNCHANGED uuidCount
            ELSE IF b64Throws(res.data)
                   THEN /\ StopCatch(t, rec, "Invalid base64 length")
                        /\ UNCHANGED uuidCount
                   ELSE /\ SetUi(t, FALSE, elapsed, status, uiStatus)   \* setIsRecording(false)
                        /\ uuidCount' = id
                        /\ task' = [task EXCEPT ![t] =
                                      [rec EXCEPT !.pc = "t_wfile", !.id = id,
                                                  !.b64 = toBase64Standard(res.data),
                                                  !.path = [id |-> id, ext |-> ext]]]
                        /\ UNCHANGED pendingResets
  /\ UNCHANGED <<cfgVars, shellVars, refVars, now, storeVars, calls>>

\* await VoiceRecorder.stopRecording() rejects (nothing recorded, or nothing to fetch)
StopNativeRejected(t) ==
  /\ task[t].kind = "stop" /\ task[t].pc = "t_nstop"
  /\ dev' = [dev EXCEPT !.nativeRecording = FALSE]
  /\ StopCatch(t, task[t], IF dev.nativeRecording THEN "FAILED_TO_FETCH_RECORDING"
                           ELSE "RECORDING_HAS_NOT_STARTED")
  /\ UNCHANGED <<cfgVars, shellVars, refVars, now, storeVars, calls, uuidCount>>

FileOf(rec) ==
  [path |-> rec.path,
   size |-> IF IsWeb THEN rec.blob.size ELSE Len(rec.b64),
   content |-> IF IsWeb THEN rec.blob.parts ELSE rec.b64]

\* Filesystem.writeFile({ path: filename, data: base64, ... }) has resolved
WriteFileDropped(fs, f) == fs
WriteFileStored(fs, f) == { g \in fs : g.path # f.path } \cup {f}
WriteFile(fs, f) == WriteFileStored(fs, f)

\* await Filesystem.writeFile (audio) resolves
\*   App.tsx:239-243 / 284-285, part_000:251-252 / 274 / 281-283, part_001:340-354 / 369-370
StopWriteFileResolved(t) ==
  /\ task[t].kind = "stop" /\ task[t].pc = "t_wfile"
  /\ files' = WriteFile(files, FileOf(task[t]))
  /\ IF IsWeb /\ build # "app"
       THEN LET wp == [kind |-> "data", type |-> task[t].blob.type]
                pos == IF build = "p0" THEN task[t].pos ELSE RefsIn(t).positionRef
            IN task' = [task EXCEPT ![t].pc = "t_read", ![t].webPath = wp,
                                    ![t].note = BuildNote(task[t], pos, wp)]
       ELSE task' = [task EXCEPT ![t].pc = "t_uri"]
  /\ UNCHANGED <<cfgVars, shellVars, uiVars, refVars, dev, now, index, notes, pendingResets,
                 calls, uuidCount>>

\* await Filesystem.writeFile (audio) rejects
StopWriteFileRejected(t) ==
  /\ task[t].kind = "stop" /\ task[t].pc = "t_wfile"
  /\ StopCatch(t, task[t], "WRITE_FAILED")
  /\ UNCHANGED <<cfgVars, shellVars, refVars, dev, now, storeVars, calls, uuidCount>>

\* await Filesystem.getUri resolves
\*   App.tsx:243-262 / 285-307, part_000:252-255 / 274-275, part_001:370-374
StopUri(t) ==
  /\ task[t].kind = "stop" /\ task[t].pc = "t_uri"
  /\ LET wp == [kind |-> "file", type |-> ""] IN
     IF ~IsWeb /\ build # "p0" /\ ~RefsIn(t).positionRef.ok
       THEN task' = [task EXCEPT ![t].pc = "t_geo", ![t].webPath = wp]
       ELSE task' = [task EXCEPT ![t].pc = "t_read", ![t].webPath = wp,
                                 ![t].note = BuildNote(task[t], RefsIn(t).positionRef, wp)]
  /\ UNCHANGED <<cfgVars, shellVars, uiVars, refVars, dev, now, storeVars, pendingResets,
                 calls, uuidCount>>

\* await Filesystem.getUri rejects.  On the web App.tsx:245-247 catches it and takes
\* URL.createObjectURL(blob); on the native platforms the call is not guarded and the
\* rejection ends in the catch block of stop() (App.tsx:286, part_000:252 / 274,
\* part_001:370), after the payload was written
StopUriRejected(t) ==
  /\ task[t].kind = "stop" /\ task[t].pc = "t_uri"
  /\ IF IsWeb
       THEN LET wp == [kind |-> "blob", type |-> task[t].blob.type] IN
            /\ task' = [task EXCEPT ![t].pc = "t_read", ![t].webPath = wp,
                                    ![t].note = BuildNote(task[t], RefsIn(t).positionRef, wp)]
            /\ UNCHANGED <<uiVars, pendingResets>>
       ELSE StopCatch(t, task[t], "URI_FAILED")
  /\ UNCHANGED <<cfgVars, shellVars, refVars, dev, now, storeVars, calls, uuidCount>>

\* the location lookup at finalize resumes: App.tsx:288-307, part_001:372-374
StopGeo(t) ==
  /\ task[t].kind = "stop" /\ task[t].pc = "t_geo"
  /\ \E p \in {NoPos} \cup Positions :
       LET r1 == IF p.ok THEN [RefsIn(t) EXCEPT !.positionRef = p] ELSE RefsIn(t) IN
       /\ PutRefs(task[t].inst, r1)
       /\ task' = [task EXCEPT ![t].pc = "t_read", ![t].fin = p,
                               ![t].note = BuildNote(task[t], r1.positionRef, task[t].webPath)]
  /\ UNCHANGED <<cfgVars, shellVars, uiVars, dev, now, storeVars, pendingResets, calls, uuidCount>>

\* readNotes without its try / catch: a failing read or parse reaches the caller
readNotesUncaught(readable) ==
  IF index.present /\ readable THEN [ok |-> TRUE, notes |-> index.notes]
  ELSE [ok |-> FALSE, notes |-> <<>>]

\* App.tsx:50-60, part_000:65-74, part_001:50-59: Filesystem.readFile rejects (no file,
\* I/O error) or JSON.parse throws (readable = FALSE): the catch returns []
readNotesCaught(readable) == [ok |-> TRUE, notes |-> readNotesOf(index, readable)]
readNotes(readable) == readNotesCaught(readable)

\* await readNotes() resumes, then writeNotes([note, ...existing]) is awaited
StopRead(t) ==
  /\ task[t].kind = "stop" /\ task[t].pc = "t_read"
  /\ \E readable \in BOOLEAN :
       LET r == readNotes(readable) IN
       IF r.ok
         THEN /\ task' = [task EXCEPT ![t].pc = "t_write", ![t].existing = r.notes]
              /\ UNCHANGED <<uiVars, pendingResets>>
         ELSE StopCatch(t, task[t], "READ_FAILED")
  /\ UNCHANGED <<cfgVars, shellVars, refVars, dev, now, storeVars, calls, uuidCount>>

\* the state setters at the end of stop(): setIsRecording(false) is among them on the
\* web paths only (App.tsx:264-267, part_000:266, part_001:356); the native paths call
\* it once, after stopRecording() (App.tsx:308-312, part_000:255 / 275, part_001:375)
SetSaved(t) ==
  /\ SetUi(t, IF IsWeb THEN FALSE ELSE isRecording, elapsed, "Saved", "SAVED")
  /\ SetResetTimeout(t)

\* stop() calling onSaved(note) twice after the index write
StopWriteIndexResolvedTwice(t) ==
  /\ task[t].kind = "stop" /\ task[t].pc = "t_write"
  /\ index' = [present |-> TRUE, notes |-> <<task[t].note>> \o task[t].existing]
  /\ notes' = <<task[t].note, task[t].note>> \o notes
  /\ SetSaved(t)
  /\ task' = [task EXCEPT ![t] = [Done(t, "saved") EXCEPT !.id = task[t].id]]
  /\ UNCHANGED <<cfgVars, shellVars, refVars, dev, now, files, calls, uuidCount>>

\* await writeNotes(...) resolves and stop() runs to its end: onSaved(note) is App's
\* handleSaved, setNotes(p => [note, ...p])
\*   App.tsx:262-268 / 308-312, part_000:255 / 266 / 275 / 283, part_001:355-359 / 374-375
StopWriteIndexResolved(t) ==
  /\ task[t].kind = "stop" /\ task[t].pc = "t_write"
  /\ index' = [present |-> TRUE, notes |-> <<task[t].note>> \o task[t].existing]
  /\ notes' = <<task[t].note>> \o notes
  /\ SetSaved(t)
  /\ task' = [task EXCEPT ![t] = [Done(t, "saved") EXCEPT !.id = task[t].id]]
  /\ UNCHANGED <<cfgVars, shellVars, refVars, dev, now, files, calls, uuidCount>>

\* stop() with onSaved(note) moved in front of await writeNotes(...), the write rejecting
StopWriteIndexRejectedSavedFirst(t) ==
  /\ task[t].kind = "stop" /\ task[t].pc = "t_write"
  /\ StopCatch(t, task[t], "WRITE_FAILED")
  /\ notes' = <<task[t].note>> \o notes
  /\ UNCHANGED <<cfgVars, shellVars, refVars, dev, now, files, index, calls, uuidCount>>

\* await writeNotes(...) rejects
StopWriteIndexRejected(t) ==
  /\ task[t].kind = "stop" /\ task[t].pc = "t_write"
  /\ StopCatch(t, task[t], "WRITE_FAILED")
  /\ UNCHANGED <<cfgVars, shellVars, refVars, dev, now, storeVars, calls, uuidCount>>

\* ------------------------------------------------- diagnostics (part_000)
\* The diagnostics panel of part_000 (part_000:314-325) holds two buttons.  Showing
\* and hiding the panel (setShowDiag) changes nothing else and is left out.

\* "Ask Mic": requestMic() up to its await (part_000:301-303)
ClickAskMic ==
  /\ calls < MaxCalls
  /\ tab = "record"
  /\ build = "p0"
  /\ LET t == calls + 1 IN
     /\ task' = [task EXCEPT ![t] =
                   [DefaultTask EXCEPT !.kind = "mic", !.pc = "q_req", !.inst = inst]]
     /\ calls' = t
  /\ UNCHANGED <<cfgVars, shellVars, uiVars, refVars, dev, now, storeVars, pendingResets,
                 uuidCount>>

\* await VoiceRecorder.requestAudioRecordingPermission() resumes in requestMic()
AskMicAnswered(t) ==
  /\ task[t].kind = "mic" /\ task[t].pc = "q_req"
  /\ IF ~pluginAvailable
       THEN /\ SetUi(t, isRecording, elapsed,
                     "PERM_ERR: VoiceRecorder plugin is not implemented", uiStatus)
            /\ task' = [task EXCEPT ![t] = Done(t, "failed")]
            /\ UNCHANGED dev
       ELSE \E m \in MicAfterRequest(dev.micState) :
              /\ dev' = [dev EXCEPT !.micState = m]
              /\ SetUi(t, isRecording, elapsed,
                       IF m = "granted" THEN "PERM: asked=true" ELSE "PERM: asked=false",
                       uiStatus)
              /\ task' = [task EXCEPT ![t] = Done(t, "asked")]
  /\ UNCHANGED <<cfgVars, shellVars, refVars, now, storeVars, pendingResets, calls, uuidCount>>

\* "Native 1s Smoke": runNativeSmokeTest() up to its first await (part_000:287-292)
ClickSmoke ==
  /\ calls < MaxCalls
  /\ tab = "record"
  /\ build = "p0"
  /\ LET t == calls + 1
         t0 == [DefaultTask EXCEPT !.kind = "smoke", !.inst = inst]
     IN
     /\ calls' = t
     /\ IF ~pluginAvailable
          THEN /\ uiStatus' = "FAILED_TO_RECORD"
               /\ status' = "SMOKE_FAIL: PLUGIN_NOT_LINKED"
               /\ task' = [task EXCEPT ![t] = DoneOf(t0, "failed")]
          ELSE /\ status' = "SMOKE: plugin=true"
               /\ task' = [task EXCEPT ![t] = [t0 EXCEPT !.pc = "k_has"]]
               /\ UNCHANGED uiStatus
  /\ UNCHANGED <<cfgVars, shellVars, isRecording, elapsed, refVars, dev, now, storeVars,
                 pendingResets, uuidCount>>

\* await VoiceRecorder.hasAudioRecordingPermission() resumes (part_000:292)
SmokeHas(t) ==
  /\ task[t].kind = "smoke" /\ task[t].pc = "k_has"
  /\ task' = [task EXCEPT ![t].pc = IF dev.micState = "granted" THEN "k_rec" ELSE "k_req"]
  /\ UNCHANGED <<cfgVars, shellVars, uiVars, refVars, dev, now, storeVars, pendingResets,
                 calls, uuidCount>>

\* await VoiceRecorder.requestAudioRecordingPermission() resumes (part_000:292)
SmokeReq(t) ==
  /\ task[t].kind = "smoke" /\ task[t].pc = "k_req"
  /\ \E m \in MicAfterRequest(dev.micState) :
       /\ dev' = [dev EXCEPT !.micState = m]
       /\ IF m = "granted"
            THEN /\ task' = [task EXCEPT ![t].pc = "k_rec"]
                 /\ UNCHANGED uiVars
            ELSE /\ SetUi(t, isRecording, elapsed, "SMOKE_FAIL: MIC_DENIED", uiStatus)
                 /\ task' = [task EXCEPT ![t] = Done(t, "failed")]
  /\ UNCHANGED <<cfgVars, shellVars, refVars, now, storeVars, pendingResets, calls, uuidCount>>

\* await VoiceRecorder.startRecording() resolves: the wait of 1200 ms starts (part_000:293;
\* the status text ends in an ellipsis character, written here as three dots)
SmokeRecResolved(t) ==
  /\ task[t].kind = "smoke" /\ task[t].pc = "k_rec"
  /\ dev.micState = "granted" /\ ~dev.nativeRecording
  /\ dev' = [dev EXCEPT !.nativeRecording = TRUE]
  /\ SetUi(t, isRecording, elapsed, "SMOKE: recording 1s...", uiStatus)
  /\ task' = [task EXCEPT ![t].pc = "k_wait"]
  /\ UNCHANGED <<cfgVars, shellVars, refVars, now, storeVars, pendingResets, calls, uuidCount>>

\* await VoiceRecorder.startRecording() rejects: the catch of runNativeSmokeTest()
\* (part_000:296-298)
SmokeRecRejected(t) ==
  /\ task[t].kind = "smoke" /\ task[t].pc = "k_rec"
  /\ SetUi(t, isRecording, elapsed, "SMOKE_ERR: " \o startRecordingError(dev), uiStatus)
  /\ task' = [task EXCEPT ![t] = Done(t, "failed")]
  /\ UNCHANGED <<cfgVars, shellVars, refVars, dev, now, storeVars, pendingResets, calls, uuidCount>>

\* the timeout of 1200 ms fires and stopRecording() is called (part_000:293-294)
SmokeWaited(t) ==
  /\ task[t].kind = "smoke" /\ task[t].pc = "k_wait"
  /\ task' = [task EXCEPT ![t].pc = "k_stop"]
  /\ UNCHANGED <<cfgVars, shellVars, uiVars, refVars, dev, now, storeVars, pendingResets,
                 calls, uuidCount>>

\* setStatus(`SMOKE_OK ms=${ms} mime=${mime} has=${!!base}`)   (part_000:295)
SmokeOkStatus(res) ==
  "SMOKE_OK ms=" \o (IF res.ms = -1 THEN "undefined" ELSE ToString(res.ms))
    \o " mime=" \o (IF res.mime = "" THEN "undefined" ELSE res.mime)
    \o " has=" \o (IF res.data # <<>> THEN "true" ELSE "false")

\* await VoiceRecorder.stopRecording() resolves (part_000:294-295)
SmokeStopResolved(t) ==
  /\ task[t].kind = "smoke" /\ task[t].pc = "k_stop"
  /\ stopRecordingResolves(dev)
  /\ dev' = [dev EXCEPT !.nativeRecording = FALSE]
  /\ \E res \in NativeResults : SetUi(t, isRecording, elapsed, SmokeOkStatus(res), uiStatus)
  /\ task' = [task EXCEPT ![t] = Done(t, "smoked")]
  /\ UNCHANGED <<cfgVars, shellVars, refVars, now, storeVars, pendingResets, calls, uuidCount>>

\* await VoiceRecorder.stopRecording() rejects (part_000:296-298)
SmokeStopRejected(t) ==
  /\ task[t].kind = "smoke" /\ task[t].pc = "k_stop"
  /\ dev' = [dev EXCEPT !.nativeRecording = FALSE]
  /\ SetUi(t, isRecording, elapsed,
           "SMOKE_ERR: " \o (IF dev.nativeRecording THEN "FAILED_TO_FETCH_RECORDING"
                             ELSE "RECORDING_HAS_NOT_STARTED"), uiStatus)
  /\ task' = [task EXCEPT ![t] = Done(t, "failed")]
  /\ UNCHANGED <<cfgVars, shellVars, refVars, now, storeVars, pendingResets, calls, uuidCount>>

Next ==
  \/ MountRead
  \/ \E i \in Insts : MountGeo(i)
  \/ ClickMap
  \/ ClickRecord
  \/ ClickStart
  \/ \E t \in Tasks : StartGeo(t)
  \/ \E t \in Tasks : StartGumRejected(t)
  \/ \E t \in Tasks : StartGumResolved(t)
  \/ \E t \in Tasks : StartHas(t)
  \/ \E t \in Tasks : StartReq(t)
  \/ \E t \in Tasks : StartRecRejected(t)
  \/ \E t \in Tasks : StartRecResolved(t)
  \/ ClickStop
  \/ \E t \in Tasks : StopOnstop(t)
  \/ \E t \in Tasks : RecorderStopUnheard(t)
  \/ \E t \in Tasks : StopCtxClosed(t)
  \/ \E t \in Tasks : StopCtxCloseRejected(t)
  \/ \E t \in Tasks : StopBuf(t)
  \/ \E t \in Tasks : StopNativeResolved(t)
  \/ \E t \in Tasks : StopNativeRejected(t)
  \/ \E t \in Tasks : StopWriteFileResolved(t)
  \/ \E t \in Tasks : StopWriteFileRejected(t)
  \/ \E t \in Tasks : StopUri(t)
  \/ \E t \in Tasks : StopUriRejected(t)
  \/ \E t \in Tasks : StopGeo(t)
  \/ \E t \in Tasks : StopRead(t)
  \/ \E t \in Tasks : StopWriteIndexResolved(t)
  \/ \E t \in Tasks : StopWriteIndexRejected(t)
  \/ ClickAskMic
  \/ \E t \in Tasks : AskMicAnswered(t)
  \/ ClickSmoke
  \/ \E t \in Tasks : SmokeHas(t)
  \/ \E t \in Tasks : SmokeReq(t)
  \/ \E t \in Tasks : SmokeRecResolved(t)
  \/ \E t \in Tasks : SmokeRecRejected(t)
  \/ \E t \in Tasks : SmokeWaited(t)
  \/ \E t \in Tasks : SmokeStopResolved(t)
  \/ \E t \in Tasks : SmokeStopRejected(t)
  \/ Advance
  \/ \E t \in Tasks : TimerTick(t)
  \/ StatusReset
  \/ \E t \in Tasks : AudioProcess(t)

Spec == Init /\ [][Next]_vars

\* ------------------------------------------- the capture session on the Record tab
\* The session as the specification scopes it: the user stays on the Record tab and
\* leaves the diagnostics panel alone, and both mount effects have completed before
\* the first press: App holds what its readNotes() returned, and the prefetch has
\* stored a position or failed (part_001:232-245, 466-470).
InitSession ==
  /\ build \in Builds
  /\ platform \in Platforms
  /\ InitEnv
  /\ Mounting(TRUE, TRUE)

\* the steps every revision has
NextCapture ==
  \/ ClickStart
  \/ \E t \in Tasks : StartGeo(t)
  \/ \E t \in Tasks : StartGumRejected(t)
  \/ \E t \in Tasks : StartGumResolved(t)
  \/ \E t \in Tasks : StartReq(t)
  \/ \E t \in Tasks : StartRecRejected(t)
  \/ \E t \in Tasks : StartRecResolved(t)
  \/ ClickStop
  \/ \E t \in Tasks : StopOnstop(t)
  \/ \E t \in Tasks : RecorderStopUnheard(t)
  \/ \E t \in Tasks : StopCtxClosed(t)
  \/ \E t \in Tasks : StopCtxCloseRejected(t)
  \/ \E t \in Tasks : StopBuf(t)
  \/ \E t \in Tasks : StopNativeResolved(t)
  \/ \E t \in Tasks : StopNativeRejected(t)
  \/ \E t \in Tasks : StopWriteFileResolved(t)
  \/ \E t \in Tasks : StopWriteFileRejected(t)
  \/ \E t \in Tasks : StopUri(t)
  \/ \E t \in Tasks : StopUriRejected(t)
  \/ \E t \in Tasks : StopGeo(t)
  \/ \E t \in Tasks : StopRead(t)
  \/ \E t \in Tasks : StopWriteIndexResolved(t)
  \/ \E t \in Tasks : StopWriteIndexRejected(t)
  \/ Advance
  \/ \E t \in Tasks : TimerTick(t)
  \/ StatusReset
  \/ \E t \in Tasks : AudioProcess(t)

\* part_000 also asks hasAudioRecordingPermission() first (part_000:190, 226)
NextSession == NextCapture \/ \E t \in Tasks : StartHas(t)

SpecSession == InitSession /\ [][NextSession]_vars

\* ------------------------------------------- the session and App's initial load
\* App.tsx and part_001 with App's mount read still pending at the first press (the
\* prefetch has completed without a fix): the load resumes at any point of a capture.
InitLoad ==
  /\ build \in {"app", "p1"}
  /\ platform \in Platforms
  /\ InitEnv
  /\ Mounting(FALSE, TRUE)
  /\ refs.positionRef = NoPos

SpecLoad == InitLoad /\ [][NextCapture \/ MountRead]_vars

\* ------------------------------------------- the session and the location prefetch
\* part_001 with the prefetch of the mounted RecordView still pending at the first
\* press (App's load has completed): the prefetch resumes at any point of a capture.
InitPrefetch ==
  /\ build = "p1"
  /\ platform \in Platforms
  /\ InitEnv
  /\ Mounting(TRUE, FALSE)

SpecPrefetch == InitPrefetch /\ [][NextCapture \/ MountGeo(0)]_vars

\* stop() may also be called while nothing is recorded (a caller other than the button)
\* (the session of SpecSession, started from a fresh store)
NextApi == NextSession \/ CallStopIdle
InitApi == InitSession /\ index = NoIndex
SpecApi == InitApi /\ [][NextApi]_vars

\* ------------------------------------------- the raw fallback path alone
\* part_001 in a browser where negotiation finds no type, with an audio graph that
\* delivers up to MaxDeliveries blocks (from the first render over a fresh store, both
\* mount effects still pending)
MaxDeliveries == 2
InitSampler ==
  /\ Init
  /\ build = "p1" /\ platform = "web"
  /\ caps = MismatchCaps
  /\ index = NoIndex

NextSampler ==
  \/ MountRead
  \/ \E i \in Insts : MountGeo(i)
  \/ ClickStart
  \/ \E t \in Tasks : StartGeo(t)
  \/ \E t \in Tasks : StartGumRejected(t)
  \/ \E t \in Tasks : StartGumResolved(t)
  \/ ClickStop
  \/ \E t \in Tasks : StopCtxClosed(t)
  \/ \E t \in Tasks : StopCtxCloseRejected(t)
  \/ \E t \in Tasks : StopBuf(t)
  \/ \E t \in Tasks : StopWriteFileResolved(t)
  \/ \E t \in Tasks : StopWriteFileRejected(t)
  \/ \E t \in Tasks : StopRead(t)
  \/ \E t \in Tasks : StopWriteIndexResolved(t)
  \/ \E t \in Tasks : StopWriteIndexRejected(t)
  \/ Advance
  \/ \E t \in Tasks : TimerTick(t)
  \/ StatusReset
  \/ \E t \in Tasks : AudioProcessUpTo(t, MaxDeliveries)

SpecSampler == InitSampler /\ [][NextSampler]_vars

\* ------------------------------------------------------ negotiation alone
\* every capability combination: per candidate isTypeSupported answers true, answers
\* false or throws (on up to MaxThrows candidates), and canPlayType answers yes or no
AllCaps ==
  { c \in [hasMR : {TRUE}, rec : SUBSET CandSet, play : SUBSET CandSet,
           throws : { y \in SUBSET CandSet : Cardinality(y) <= MaxThrows },
           sampleRate : {DefaultSampleRate}] : c.rec \cap c.throws = {} }
  \cup
  { [hasMR |-> FALSE, rec |-> {}, play |-> p, throws |-> {}, sampleRate |-> DefaultSampleRate] :
      p \in SUBSET CandSet }

InitPick ==
  /\ InitCommon
  /\ platform = "web"
  /\ build \in {"p0", "p1"}
  /\ refs = InitRefs
  /\ caps \in AllCaps
  /\ build = "p0" => caps.hasMR
  /\ pluginAvailable = FALSE
  /\ dev = InitDev

\* const chosen = pickSupportedType()   (part_001:270)
\* const chosen = (() => { ... })()     (part_000:212-217)
Negotiate ==
  /\ task[1].kind = "none"
  /\ task' = [task EXCEPT ![1].kind = "pick", ![1].pc = "done",
                          ![1].mime = IF build = "p1" THEN pickSupportedType(caps)
                                      ELSE chosenInline(caps)]
  /\ UNCHANGED <<cfgVars, shellVars, uiVars, refVars, dev, now, storeVars, pendingResets, calls, uuidCount>>

SpecPick == InitPick /\ [][Negotiate]_vars

\* -------------------------------------------------- helper functions alone
\* the component at rest, for the specifications that call one helper function
InitAtRest ==
  /\ build = "p1" /\ platform = "android"
  /\ caps = NoCaps /\ pluginAvailable = TRUE
  /\ isRecording = FALSE /\ elapsed = 0 /\ status = "NULL" /\ uiStatus = "IDLE"
  /\ tab = "record" /\ inst = 0 /\ mount = MountEffects(TRUE, TRUE, <<>>)
  /\ refs = InitRefs /\ gone = [i \in Insts |-> InitRefs] /\ dev = InitDev /\ now = 0
  /\ files = {} /\ index = NoIndex /\ notes = <<>> /\ uuidCount = 0
  /\ pendingResets = 0 /\ calls = 0

SeqsUpTo(S, n) == UNION { [1..k -> S] : k \in 0..n }

\* the strings handed to toBase64Standard: base64 and URL-safe base64 characters,
\* padding, white space and a character of neither alphabet, with or without a
\* leading data-URL prefix
MaxB64Len == 5
B64Chars == {"A", "-", "_", "=", "\n", "!"}
B64Inputs ==
  SeqsUpTo(B64Chars, MaxB64Len)
    \cup { <<DataPrefix>> \o x : x \in SeqsUpTo(B64Chars, MaxB64Len) }

InitB64 ==
  /\ InitAtRest
  /\ task \in { [t \in Tasks |-> IF t = 1 THEN [DefaultTask EXCEPT !.arg = x] ELSE DefaultTask] :
                  x \in B64Inputs }

\* const base64 = toBase64Standard(rawBase64): returns, or throws
\*   App.tsx:279, part_000:247 / 272, part_001:366
Normalize ==
  /\ task[1].kind = "none"
  /\ task' = [task EXCEPT ![1].kind = "b64", ![1].pc = "done",
                          ![1].out = IF b64Throws(task[1].arg) THEN "threw" ELSE "returned",
                          ![1].ret = IF b64Throws(task[1].arg) THEN <<>>
                                     ELSE toBase64Standard(task[1].arg)]
  /\ UNCHANGED <<cfgVars, shellVars, uiVars, refVars, dev, now, storeVars, pendingResets, calls, uuidCount>>

SpecB64 == InitB64 /\ [][Normalize]_vars

\* ------------------------------------------------------------- encodeWav
\* A Float32Array sample is the rational num / SampleDen, held as its numerator.
\* An ArrayBuffer is a sequence of bytes (0..255), byte offset o at index o + 1.
SampleDen == 2
MaxSampleNum == 3
MaxSamples == 3
SampleNums == (0 - MaxSampleNum) .. MaxSampleNum
WavRates == {8000, DefaultSampleRate, 48000}

Pow256(n) == IF n = 0 THEN 1 ELSE IF n = 1 THEN 256 ELSE IF n = 2 THEN 65536 ELSE 16777216

\* the n bytes DataView.setUintN / setIntN store for the integer v: the n low bytes
\* of v in two's complement (v modulo 2^(8n)), least significant byte first
\* (littleEndian = true) or last
beBytes(v, n) == [i \in 1..n |-> (v \div Pow256(n - i)) % 256]
leBytes(v, n) == [i \in 1..n |-> (v \div Pow256(i - 1)) % 256]

\* view.setUintN(offset, v, true), view.setInt16(offset, v, true), writeString
Put(buf, offset, bytes) ==
  [i \in 1..Len(buf) |-> IF i > offset /\ i <= offset + Len(bytes)
                           THEN bytes[i - offset] ELSE buf[i]]

\* ToNumber -> integer part (toward zero) of the rational p / q, as setInt16 takes it
TruncDiv(p, q) == IF p >= 0 THEN p \div q ELSE 0 - ((0 - p) \div q)

\* Math.max(-1, Math.min(1, samples[i]))
noClamp(x) == x
clampSample(x) == IF x > SampleDen THEN SampleDen ELSE IF x < 0 - SampleDen THEN 0 - SampleDen ELSE x

\* s < 0 ? s * 0x8000 : s * 0x7fff   (numerator over SampleDen)
scaleSymmetric(c) == c * 32768
scaleSample(c) == IF c < 0 THEN c * 32768 ELSE c * 32767

sampleInt(x) == TruncDiv(scaleSample(clampSample(x)), SampleDen)

\* "RIFF", "WAVE", "fmt ", "data" as writeString stores them (charCodeAt)
RIFF == <<82, 73, 70, 70>>
WAVE == <<87, 65, 86, 69>>
FMT == <<102, 109, 116, 32>>
DATA == <<100, 97, 116, 97>>

\* for (let i = 0; i < samples.length; i++, offset += 2) view.setInt16(offset, ..., true)
RECURSIVE WriteSamples(_, _, _)
WriteSamples(buf, samples, i) ==
  IF i > Len(samples) THEN buf
  ELSE WriteSamples(Put(buf, WavHeaderLen + 2 * (i - 1), leBytes(sampleInt(samples[i]), 2)),
                    samples, i + 1)

encodeWav(samples, sampleRate) ==
  LET numChannels == 1
      bytesPerSample == 2
      blockAlign == numChannels * bytesPerSample
      byteRate == sampleRate * blockAlign
      dataSize == Len(samples) * bytesPerSample
      b0 == [i \in 1..encodeWavSize(Len(samples)) |-> 0]
      b1 == Put(b0, 0, RIFF)
      b2 == Put(b1, 4, leBytes(36 + dataSize, 4))
      b3 == Put(b2, 8, WAVE)
      b4 == Put(b3, 12, FMT)
      b5 == Put(b4, 16, leBytes(16, 4))
      b6 == Put(b5, 20, leBytes(1, 2))
      b7 == Put(b6, 22, leBytes(numChannels, 2))
      b8 == Put(b7, 24, leBytes(sampleRate, 4))
      b9 == Put(b8, 28, leBytes(byteRate, 4))
      b10 == Put(b9, 32, leBytes(blockAlign, 2))
      b11 == Put(b10, 34, leBytes(16, 2))
      b12 == Put(b11, 36, DATA)
      b13 == Put(b12, 40, leBytes(dataSize, 4))
  IN WriteSamples(b13, samples, 1)

InitWav ==
  /\ InitAtRest
  /\ task \in { [t \in Tasks |-> IF t = 1 THEN [DefaultTask EXCEPT !.arg = x, !.rate = r]
                                   ELSE DefaultTask] :
                  x \in SeqsUpTo(SampleNums, MaxSamples), r \in WavRates }

\* const wav = encodeWav(merged, sampleRateRef.current)   (part_001:330)
Encode ==
  /\ task[1].kind = "none"
  /\ task' = [task EXCEPT ![1].kind = "wav", ![1].pc = "done", ![1].out = "returned",
                          ![1].ret = encodeWav(task[1].arg, task[1].rate)]
  /\ UNCHANGED <<cfgVars, shellVars, uiVars, refVars, dev, now, storeVars, pendingResets, calls, uuidCount>>

SpecWav == InitWav /\ [][Encode]_vars

\* --------------------------------------------------------------- MapView
\* the record lists MapView may be handed: notes with coordinates on and off the
\* axes and at (0, 0), told apart by their ids
MaxNotes == 3
MapCoords == {0 - 10, 0, 10}
MapNotes ==
  UNION { { [i \in 1..k |-> [id |-> i, lat |-> f[i][1], lon |-> f[i][2]]] :
              f \in [1..k -> MapCoords \X MapCoords] } : k \in 0..MaxNotes }

\* notes.filter(n => !(n.lat === 0 && n.lon === 0)) / notes.filter(n => (n.lat === 0 && n.lon === 0))
\*   App.tsx:378-379, part_000:341-342, part_001:415-416
locatedBothNonZero(ns) == SelectSeq(ns, LAMBDA n : n.lat # 0 /\ n.lon # 0)
located(ns) == SelectSeq(ns, LAMBDA n : ~(n.lat = 0 /\ n.lon = 0))
unlocated(ns) == SelectSeq(ns, LAMBDA n : n.lat = 0 /\ n.lon = 0)

InitMap ==
  /\ InitAtRest
  /\ task \in { [t \in Tasks |-> IF t = 1 THEN [DefaultTask EXCEPT !.arg = ns] ELSE DefaultTask] :
                  ns \in MapNotes }

\* MapView renders: both useMemo filters run on the notes it was handed
RenderMap ==
  /\ task[1].kind = "none"
  /\ task' = [task EXCEPT ![1].kind = "map", ![1].pc = "done", ![1].out = "returned",
                          ![1].ret = << located(task[1].arg), unlocated(task[1].arg) >>]
  /\ UNCHANGED <<cfgVars, shellVars, uiVars, refVars, dev, now, storeVars, pendingResets, calls, uuidCount>>

SpecMap == InitMap /\ [][RenderMap]_vars

\* =================================================================== claims
Quiescent == ~Busy /\ pendingResets = 0
NotesOf(ix) == { ix.notes[i] : i \in 1..Len(ix.notes) }

\* C1: a start() invoked while another start() or a stop() is still suspended, or
\* while the session records, is rejected: it never reaches RECORDING and acquires
\* no stream, recorder or audio graph.
C1_StartOnlyFromIdle ==
  \A t \in Tasks :
    (task[t].kind = "start" /\ (task[t].atBusy \/ task[t].atRecording \/ task[t].atStatus = "RECORDING"))
      => /\ task[t].out # "recording"
         /\ ~dev.streamLive[t]
         /\ dev.recState[t] = "none"
         /\ dev.ctxState[t] = "none"

\* C2: on the web, every indexed record has a mimeType that is both recordable and
\* playable in this browser, or is the raw audio/wav fallback.
C2_PersistedTypePlayable ==
  IsWeb =>
    \A n \in NotesOf(index) :
      \/ n.mimeType = "audio/wav"
      \/ caps.hasMR /\ n.mimeType \in caps.rec /\ n.mimeType \in caps.play

\* C3: on the web, when negotiation finds no mutual type, no compressed recorder is
\* ever started and every record saved is audio/wav in a .wav file.
NegotiationNone ==
  \/ build = "p1" /\ pickSupportedType(caps) = ""
  \/ build = "p0" /\ caps.hasMR /\ chosenInline(caps) = ""
C3_NoneMeansWavFallback ==
  (IsWeb /\ NegotiationNone) =>
    /\ \A t \in Tasks : dev.recState[t] = "none"
    /\ \A n \in NotesOf(index) : n.mimeType = "audio/wav" /\ n.filePath.ext = "wav"

\* C4: the negotiation returns the first candidate, in list order, that the
\* recordability and the playability predicate both accept (a throwing probe counts
\* as a refusal), and returns "" exactly when no candidate is accepted by both.
PickList == IF build = "p1" THEN CANDIDATE_TYPES ELSE candidates
BothAccept(i) ==
  /\ caps.hasMR
  /\ PickList[i] \in caps.rec
  /\ PickList[i] \in caps.play
  /\ PickList[i] \notin caps.throws
C4_PickFirstMutual ==
  task[1].kind = "pick" =>
    LET r == task[1].mime IN
    /\ (r = "") <=> (\A i \in 1..Len(PickList) : ~BothAccept(i))
    /\ r # "" => \E i \in 1..Len(PickList) :
                   /\ PickList[i] = r
                   /\ BothAccept(i)
                   /\ \A j \in 1..(i - 1) : ~BothAccept(j)
\* a negotiation that skipped refused candidates and had more than one acceptable one
C4_Witness ==
  /\ task[1].kind = "pick"
  /\ task[1].mime = "audio/webm"
  /\ "audio/ogg" \in caps.rec \cap caps.play
  /\ "audio/mp4" \in caps.rec /\ "audio/mp4" \notin caps.play
  /\ caps.throws = {"audio/webm;codecs=opus"}

\* C5: a stop() invoked while the session is IDLE leaves it IDLE: no failure status,
\* no file, no index.
C5_StopWhileIdleIsNoop ==
  \A t \in Tasks :
    (task[t].kind = "stop" /\ task[t].atStatus = "IDLE" /\ ~task[t].atBusy /\ calls = t)
      => /\ uiStatus = "IDLE"
         /\ status = "NULL"
         /\ ~isRecording
         /\ files \in {{}, {OldFile}} /\ index \in {NoIndex, OldIndex}

\* C6: an empty payload is never persisted: no audio file without content exists.
C6_NoEmptyPayloadPersisted ==
  /\ \A f \in files : f.content # <<>>
  /\ \A n \in NotesOf(index) : \E f \in files : f.path = n.filePath /\ f.content # <<>>

\* C7: once a start() or stop() has failed, what that attempt acquired (for a stop:
\* the session it was stopping) is released: stream stopped, recorder not recording,
\* audio graph closed.
Released(s) ==
  /\ ~dev.streamLive[s]
  /\ dev.recState[s] # "recording"
  /\ dev.ctxState[s] # "running"
C7_FailureReleasesResources ==
  \A t \in Tasks :
    task[t].out = "failed" =>
      /\ task[t].kind = "start" => Released(t)
      /\ (task[t].kind = "stop" /\ task[t].sess # 0) => Released(task[t].sess)

\* C8: whenever a start() or stop() ends in failure, isRecording is false afterwards
\* (so the button offers start again).
C8_FailureLeavesStartable ==
  [][ \A t \in Tasks :
        (task[t].out # "failed" /\ task'[t].out = "failed") => ~isRecording' ]_vars

\* C9: SAVED and FAILED do not persist: once nothing is left to run without the
\* user (no handler suspended, no timeout pending), uiStatus is back to IDLE.
C9_StatusAutoResets ==
  Quiescent => uiStatus \notin {"SAVED", "FAILED_TO_RECORD"}

\* C10: no interval timer is live unless the session is RECORDING, and never more
\* than one.
LiveTimers == { t \in Tasks : dev.timerLive[t] }
C10_TimerCancelled ==
  /\ uiStatus # "RECORDING" => LiveTimers = {}
  /\ Cardinality(LiveTimers) <= 1
\* C11: when the user refuses the microphone permission, the attempt ends there: start()
\* fails with a permission-specific cause and goes on to no further call (startRecording
\* is not reached, RECORDING is not entered).
PermissionCauses == {"IOS_MIC_PERMISSION_DENIED", "MIC_PERMISSION_DENIED"}
C11_PermissionRefusedEndsAttempt ==
  [][ \A t \in Tasks :
        ( /\ task[t].kind = "start" /\ task[t].pc = "s_req" /\ task'[t].pc # "s_req"
          /\ pluginAvailable /\ dev'.micState = "denied" )
          => /\ task'[t].out = "failed"
             /\ uiStatus' = "FAILED_TO_RECORD"
             /\ status' \in PermissionCauses ]_vars

\* C12: on the native paths a start() that fails because the capture facility is missing
\* never shows a cause that a refused permission shows, and the other way round.
DeniedCauses == PermissionCauses \cup {StartCatchStatus("MISSING_PERMISSION")}
MissingCauses ==
  {"IOS_PLUGIN_NOT_LINKED", StartCatchStatus("VoiceRecorder plugin is not implemented")}
C12_MissingAndDeniedDiffer ==
  [][ \A t \in Tasks :
        ( /\ task[t].kind = "start" /\ ~IsWeb
          /\ task[t].out # "failed" /\ task'[t].out = "failed" )
          => /\ ~pluginAvailable => status' \notin DeniedCauses
             /\ (pluginAvailable /\ dev'.micState = "denied") => status' \notin MissingCauses ]_vars
\* C13: every write of the index puts the new record first and keeps, behind it, all
\* records the index held before, in their order.
C13_AppendPrepends ==
  [][ index' # index =>
        /\ index'.present
        /\ \E t \in Tasks : index'.notes = << task[t].note >> \o index.notes ]_vars

\* C14: no write of the index removes or alters a record it held.
C14_AppendOnly ==
  [][ NotesOf(index) \subseteq NotesOf(index') ]_vars
\* C15: reading the index never fails the caller: stop() always goes on from its
\* readNotes() to the index write, with the list the index holds or, when the index is
\* missing or unreadable, with the empty list.
C15_ReadNeverFails ==
  [][ \A t \in Tasks :
        (task[t].pc = "t_read" /\ task'[t].pc # "t_read")
          => /\ task'[t].pc = "t_write"
             /\ task'[t].out # "failed"
             /\ task'[t].existing \in {<<>>, index.notes}
             /\ ~index.present => task'[t].existing = <<>> ]_vars
\* a stop() that has read an existing but unreadable index as empty
C15_Witness ==
  \E t \in Tasks :
    /\ task[t].kind = "stop" /\ task[t].pc = "t_write"
    /\ index.present /\ index.notes # <<>>
    /\ task[t].existing = <<>>
\* C16: in every state, also between the two writes of a stop(), every record of the
\* index refers to a payload that has been written (an orphaned payload may exist, an
\* index entry without payload never).
PayloadOf(n) == { f \in files : f.path = n.filePath }
C16_PayloadBeforeIndex ==
  \A n \in NotesOf(index) : PayloadOf(n) # {}
\* a record of this run has been indexed, after its payload
C16_Witness ==
  \E n \in NotesOf(index) : n # OldNote /\ PayloadOf(n) # {}

\* C17: no two records of the index share an id or a payload path, and a record's
\* payload path is made of its own id.
C17_UniqueIds ==
  /\ \A i, j \in 1..Len(index.notes) :
        i # j => /\ index.notes[i].id # index.notes[j].id
                 /\ index.notes[i].filePath # index.notes[j].filePath
  /\ \A n \in NotesOf(index) : n.filePath.id = n.id
\* the index holds a record of an earlier run and one of this run
C17_Witness ==
  /\ Len(index.notes) = 2
  /\ index.notes[2] = OldNote
  /\ index.notes[1].id # OldNote.id
\* C18: when the payload write or the index write of a stop() fails, the session is
\* FAILED, the index is what it was when that stop() was invoked, and onSaved has not
\* run (App's list is what it was).
C18_WriteFailureLeavesStore ==
  [][ \A t \in Tasks :
        ( /\ task[t].kind = "stop" /\ task[t].pc \in {"t_wfile", "t_write"}
          /\ task'[t].out = "failed" )
          => /\ uiStatus' = "FAILED_TO_RECORD"
             /\ index' = task[t].atIndex
             /\ notes' = task[t].atNotes ]_vars
\* an index write has failed after the payload of the capture was written
C18_Witness ==
  /\ build = "p0" /\ status = "WRITE_FAILED" /\ uiStatus = "FAILED_TO_RECORD"
  /\ \E f \in files : f # OldFile
  /\ index \in {NoIndex, OldIndex}

\* C19: the coordinates of a record are those of the location snapshot taken by the
\* start() of its own session (or by that session's own lookup at finalize), never
\* those another session or the mount-time prefetch left in positionRef.
Coords(p) == << PosLat(p), PosLon(p) >>
C19_OwnSnapshot ==
  \A t \in Tasks :
    (task[t].kind = "stop" /\ task[t].note # NoNote /\ task[t].owner # 0)
      => << task[t].note.lat, task[t].note.lon >>
           \in {Coords(task[task[t].owner].snap)}
               \cup (IF task[t].fin.ok THEN {Coords(task[t].fin)} ELSE {})

\* C20: a record of a session whose own lookups (at start() and at finalize) obtained
\* no location has lat = 0 and lon = 0.
C20_NoFixMeansZero ==
  \A t \in Tasks :
    ( /\ task[t].kind = "stop" /\ task[t].note # NoNote /\ task[t].owner # 0
      /\ ~task[task[t].owner].snap.ok /\ ~task[t].fin.ok )
      => task[t].note.lat = 0 /\ task[t].note.lon = 0
\* C21: a start() resumed from its location lookup goes on to its capture path with no
\* status set, whatever the lookup returned; it can only end there for a missing
\* backend, never for the lookup, and it can reach RECORDING without a location.
C21_LookupFailureSwallowed ==
  [][ \A t \in Tasks :
        (task[t].kind = "start" /\ task[t].pc = "s_geo" /\ task'[t].pc # "s_geo")
          => \/ /\ task'[t].pc \in {"s_gum", "s_has", "s_req"}
                /\ uiStatus' = uiStatus /\ status' = status
             \/ /\ task'[t].out = "failed" /\ build = "p0"
                /\ \/ IsWeb /\ ~caps.hasMR /\ status' = "WEB_NO_MEDIARECORDER"
                   \/ IsIos /\ ~pluginAvailable /\ status' = "IOS_PLUGIN_NOT_LINKED" ]_vars
\* a session that records although its start() obtained no location
C21_Witness ==
  \E t \in Tasks :
    /\ task[t].kind = "start" /\ task[t].out = "recording" /\ ~task[t].snap.ok
    /\ ~refs.positionRef.ok
    /\ isRecording /\ uiStatus = "RECORDING"
\* C22: a record's durationMs is the duration the native facility reported when it
\* reported one; otherwise, and always on the web, it is a value of the timer of the
\* session the record was taken from (between 0 and the time that session has run).
StartedBefore(t) == { s \in 1 .. (t - 1) : task[s].kind = "start" /\ task[s].out = "recording" }
SessionOf(t) ==
  IF task[t].sess # 0 THEN task[t].sess
  ELSE IF task[t].owner # 0 THEN task[t].owner
  ELSE IF StartedBefore(t) = {} THEN 0
  ELSE CHOOSE s \in StartedBefore(t) : \A u \in StartedBefore(t) : u <= s
OwnElapsed(t) ==
  IF SessionOf(t) = 0 THEN {}
  ELSE 0 .. (task[t].note.createdAt - dev.timerT0[SessionOf(t)])
C22_DurationSource ==
  \A t \in Tasks :
    (task[t].kind = "stop" /\ task[t].note # NoNote)
      => IF ~IsWeb /\ task[t].ms # -1
           THEN task[t].note.durationMs = task[t].ms
           ELSE task[t].note.durationMs \in OwnElapsed(t)
\* C23: on a native platform, a stop() whose facility returned a valid payload with
\* msDuration 4200 and mimeType "audio/m4a" names its payload file with the extension
\* "m4a" and builds a record with durationMs 4200 and mimeType "audio/m4a".
C23_NativeM4a ==
  \A t \in Tasks :
    (task[t].kind = "stop" /\ ~IsWeb /\ task[t].ms = 4200 /\ task[t].mime = "audio/m4a")
      => /\ task[t].path # NoPath => task[t].path.ext = "m4a"
         /\ task[t].note # NoNote
              => /\ task[t].note.durationMs = 4200
                 /\ task[t].note.mimeType = "audio/m4a"
                 /\ task[t].note.filePath.ext = "m4a"
\* C24: whatever toBase64Standard returns has a length that is a multiple of 4 and
\* holds no '-' and no '_' (each replaced by '+' and '/'); an input with length
\* remainder 2 or 3 gets exactly 2 or 1 '=' appended.  When the input holds only
\* base64 or URL-safe base64 characters and white space (after an optional data-URL
\* prefix), or is already padded standard base64, the result is valid standard base64.
B64Std == {"A", "+", "/"}
B64Url == {"A", "-", "_"}
IsStdBase64(s) ==
  /\ Len(s) % 4 = 0
  /\ \E k \in 0..2 :
       /\ k <= Len(s)
       /\ \A i \in 1..Len(s) : IF i <= Len(s) - k THEN s[i] \in B64Std ELSE s[i] = "="
\* the input without its data-URL prefix and without white space
Stripped(input) ==
  SelectSeq(IF input # <<>> /\ Head(input) = DataPrefix THEN Tail(input) ELSE input,
            LAMBDA c : c \notin Whitespace)
Returned == task[1].kind = "b64" /\ task[1].out = "returned"
ShapeOfResult ==
  LET in == Stripped(task[1].arg)
      r == task[1].ret
      pad == (4 - (Len(in) % 4)) % 4
  IN /\ Len(r) % 4 = 0
     /\ \A i \in 1..Len(r) : r[i] \notin {"-", "_"}
     /\ Len(r) = Len(in) + pad
     /\ \A i \in 1..Len(in) :
          r[i] = (IF in[i] = "-" THEN "+" ELSE IF in[i] = "_" THEN "/" ELSE in[i])
     /\ \A i \in (Len(in) + 1)..Len(r) : r[i] = "="
WellFormedB64 ==
  LET in == Stripped(task[1].arg)
  IN \/ \A i \in 1..Len(in) : in[i] \in B64Std \cup B64Url
     \/ IsStdBase64(in)
C24_NormalizedShape ==
  Returned => /\ ShapeOfResult
              /\ WellFormedB64 => IsStdBase64(task[1].ret)
\* the statement without the restriction on the input
C24_AlwaysValid ==
  Returned => ShapeOfResult /\ IsStdBase64(task[1].ret)
\* a URL-safe unpadded input with white space and remainder 2, returned padded
C24_Witness ==
  /\ Returned
  /\ Len(Stripped(task[1].arg)) % 4 = 2
  /\ \E i \in 1..Len(task[1].arg) : task[1].arg[i] \in {"-", "_"}
  /\ \E i \in 1..Len(task[1].arg) : task[1].arg[i] \in Whitespace
  /\ Head(task[1].arg) = DataPrefix
  /\ IsStdBase64(task[1].ret)
\* C25: a native stop() handed a payload whose length, once prefix and white space
\* are stripped, leaves remainder 1 modulo 4 ends there in FAILED_TO_RECORD: it
\* generates no id, and writes neither a payload file nor the index.
Remainder1(t) == task[t].kind = "stop" /\ Len(Stripped(task[t].arg)) % 4 = 1
C25_MalformedRejected ==
  [][ \A t \in Tasks :
        (task[t].pc = "t_nstop" /\ Remainder1(t)')
          => /\ task'[t].pc = "done" /\ task'[t].out = "failed"
             /\ uiStatus' = "FAILED_TO_RECORD"
             /\ task'[t].id = 0 /\ uuidCount' = uuidCount
             /\ files' = files /\ index' = index ]_vars
\* a stop() that ended on a malformed payload, the store as it was when it began
C25_Witness ==
  \E t \in Tasks :
    /\ Remainder1(t) /\ task[t].out = "failed"
    /\ uiStatus = "FAILED_TO_RECORD" /\ ~isRecording
    /\ index = task[t].atIndex
\* C26: the buffer encodeWav returns for N samples is exactly 44 + 2N bytes long
\* (44 bytes for no sample), each of them a byte.
Encoded == task[1].kind = "wav" /\ task[1].out = "returned"
C26_WavLength ==
  Encoded => /\ Len(task[1].ret) = 44 + 2 * Len(task[1].arg)
             /\ \A i \in 1..Len(task[1].ret) : task[1].ret[i] \in 0..255
             /\ task[1].arg = <<>> => Len(task[1].ret) = 44
C26_Witness == Encoded /\ Len(task[1].arg) = MaxSamples /\ Len(task[1].ret) = 44 + 2 * MaxSamples

\* C27: read little-endian, the header of the buffer holds chunkSize = 36 + 2N at
\* offset 4, format tag 1 at 20, channels 1 at 22, sampleRate R at 24, byteRate 2R at
\* 28, blockAlign 2 at 32, bitsPerSample 16 at 34 and dataSize 2N at 40.
U16At(buf, o) == buf[o + 1] + 256 * buf[o + 2]
U32At(buf, o) == buf[o + 1] + 256 * buf[o + 2] + 65536 * buf[o + 3] + 16777216 * buf[o + 4]
C27_WavHeader ==
  Encoded =>
    LET b == task[1].ret
        N == Len(task[1].arg)
        R == task[1].rate
    IN /\ U32At(b, 4) = 36 + 2 * N
       /\ U16At(b, 20) = 1
       /\ U16At(b, 22) = 1
       /\ U32At(b, 24) = R
       /\ U32At(b, 28) = 2 * R
       /\ U16At(b, 32) = 2
       /\ U16At(b, 34) = 16
       /\ U32At(b, 40) = 2 * N
C27_Witness ==
  /\ Encoded /\ task[1].rate = 48000 /\ Len(task[1].arg) = 2
  /\ U32At(task[1].ret, 24) = 48000 /\ U32At(task[1].ret, 4) = 40

\* C28: a sample above 1.0 is stored as the same 16-bit value as 1.0, a sample below
\* -1.0 as the same value as -1.0.
I16At(buf, o) == IF U16At(buf, o) >= 32768 THEN U16At(buf, o) - 65536 ELSE U16At(buf, o)
SampleAt(i) == I16At(task[1].ret, 44 + 2 * (i - 1))
StoredFor(x) == I16At(encodeWav(<<x>>, task[1].rate), 44)
C28_ClampBeforeScale ==
  Encoded =>
    \A i \in 1..Len(task[1].arg) :
      /\ task[1].arg[i] > SampleDen => SampleAt(i) = StoredFor(SampleDen)
      /\ task[1].arg[i] < 0 - SampleDen => SampleAt(i) = StoredFor(0 - SampleDen)
\* a buffer of a sample above 1.0 next to 1.0 itself, and a sample below -1.0
C28_Witness ==
  /\ Encoded
  /\ \E i, j \in 1..Len(task[1].arg) :
       /\ task[1].arg[i] > SampleDen /\ task[1].arg[j] = SampleDen
       /\ SampleAt(i) = SampleAt(j)
  /\ \E k \in 1..Len(task[1].arg) :
       /\ task[1].arg[k] < 0 - SampleDen
       /\ SampleAt(k) = StoredFor(0 - SampleDen)

\* C29: every stored sample, read as a signed 16-bit integer, lies in -32768..32767
\* and is the integer part of value * 32768 for a negative, value * 32767 for a
\* non-negative value clamped to [-1, 1]: 1.0 gives 32767, -1.0 gives -32768, 0 gives 0.
ClampedNum(x) == IF x > SampleDen THEN SampleDen ELSE IF x < 0 - SampleDen THEN 0 - SampleDen ELSE x
C29_SampleScaling ==
  Encoded =>
    \A i \in 1..Len(task[1].arg) :
      LET c == ClampedNum(task[1].arg[i])
          v == SampleAt(i)
      IN /\ v \in (0 - 32768) .. 32767
         /\ c >= 0 => v * SampleDen <= c * 32767 /\ c * 32767 < (v + 1) * SampleDen
         /\ c < 0 => (v - 1) * SampleDen < c * 32768 /\ c * 32768 <= v * SampleDen
         /\ c = SampleDen => v = 32767
         /\ c = 0 - SampleDen => v = 0 - 32768
         /\ c = 0 => v = 0
C29_Witness ==
  /\ Encoded
  /\ \E i, j, k \in 1..Len(task[1].arg) :
       /\ task[1].arg[i] = SampleDen /\ SampleAt(i) = 32767
       /\ task[1].arg[j] = 0 - SampleDen /\ SampleAt(j) = 0 - 32768
       /\ task[1].arg[k] = 0 /\ SampleAt(k) = 0
\* C30: on the raw fallback path, the blocks a stop() merges and hands to encodeWav
\* are exactly the blocks the sampler of the audio graph it stopped has delivered,
\* in the order of delivery: none missing, none twice, none from elsewhere.
DeliveredBy(c) ==
  IF c = 0 THEN <<>>
  ELSE [i \in 1..dev.blocksOut[c] |-> [src |-> c, n |-> i, len |-> BlockLen]]
C30_FallbackSamples ==
  \A t \in Tasks :
    (task[t].kind = "stop" /\ task[t].fb /\ task[t].blob # NoBlob)
      => task[t].blob.parts = DeliveredBy(task[t].mr)
\* C31: every chunk or block in the payload a web stop() assembles was delivered by
\* the recorder or audio graph of the session that stop() finalizes, none by another
\* session's, and on the raw path none after stop() had disconnected its graph.
C31_PayloadOfOwnSession ==
  \A t \in Tasks :
    (task[t].kind = "stop" /\ IsWeb /\ task[t].blob # NoBlob)
      => \A i \in 1..Len(task[t].blob.parts) : task[t].blob.parts[i].src = task[t].mr
\* C32: a block kept in pcmBuffersRef reads the same after every step, also after
\* the audio subsystem has filled its input buffer again for a later delivery.
C32_BlocksAreCopies ==
  [][ \A i \in 1..Len(refs.pcmBuffersRef) :
        BlockData(refs.pcmBuffersRef[i], dev') = BlockData(refs.pcmBuffersRef[i], dev) ]_vars
\* a graph has refilled its buffer after its first block was stored, and the stored
\* block still holds the first quantum
C32_Witness ==
  \E c \in Tasks :
    /\ dev.blocksOut[c] = 2
    /\ Len(refs.pcmBuffersRef) = 2
    /\ refs.pcmBuffersRef[1].src = c /\ BlockData(refs.pcmBuffersRef[1], dev) = 1
    /\ refs.pcmBuffersRef[2].src = c /\ BlockData(refs.pcmBuffersRef[2], dev) = 2
\* C33: MapView's two lists partition the records it was handed: a record is in
\* `unlocated` exactly when lat = 0 and lon = 0, in `located` exactly otherwise, and
\* so in exactly one of them; together they hold every record once.
Rendered == task[1].kind = "map" /\ task[1].out = "returned"
ElemsOf(q) == { q[i] : i \in 1..Len(q) }
C33_BucketsPartition ==
  Rendered =>
    LET ns == task[1].arg
        loc == task[1].ret[1]
        unl == task[1].ret[2]
    IN /\ \A i \in 1..Len(ns) :
            /\ ns[i] \in ElemsOf(unl) <=> (ns[i].lat = 0 /\ ns[i].lon = 0)
            /\ ns[i] \in ElemsOf(loc) <=> ~(ns[i].lat = 0 /\ ns[i].lon = 0)
       /\ ElemsOf(loc) \cap ElemsOf(unl) = {}
       /\ ElemsOf(loc) \cup ElemsOf(unl) = ElemsOf(ns)
       /\ Len(loc) + Len(unl) = Len(ns)
\* a list with a record at (0, 0), one on an axis and one off the axes, rendered
C33_Witness ==
  /\ Rendered
  /\ \E i, j, k \in 1..Len(task[1].arg) :
       /\ task[1].arg[i].lat = 0 /\ task[1].arg[i].lon = 0
       /\ task[1].arg[j].lat = 0 /\ task[1].arg[j].lon # 0
       /\ task[1].arg[k].lat # 0 /\ task[1].arg[k].lon # 0
  /\ Len(task[1].ret[1]) = 2 /\ Len(task[1].ret[2]) = 1
\* C34: the records added to the index, and the payloads added to the blob store,
\* are never more than the sessions opened (start() calls that reached RECORDING),
\* also when Stop is pressed again while a stop() is suspended.
SessionsOpened == { t \in Tasks : task[t].kind = "start" /\ task[t].out = "recording" }
RecordsAdded == { n \in NotesOf(index) : n # OldNote }
PayloadsAdded == { f \in files : f # OldFile }
C34_OneRecordPerSession ==
  /\ Cardinality(RecordsAdded) <= Cardinality(SessionsOpened)
  /\ Cardinality(PayloadsAdded) <= Cardinality(SessionsOpened)
\* Stop was pressed twice for one session, the second time while the first stop()
\* was suspended; everything has run to its end and one record was added
C34_Witness ==
  /\ Quiescent
  /\ Cardinality(SessionsOpened) = 1
  /\ \E t, u \in Tasks :
       /\ t < u /\ task[t].kind = "stop" /\ task[u].kind = "stop" /\ task[u].atBusy
  /\ Cardinality(RecordsAdded) = 1 /\ Cardinality(PayloadsAdded) = 1
\* C35: every stop() that was invoked runs to its end.  In finite form: a stop()
\* suspended on the recorder's stop event is still the one that event will resume
\* (the recorder is stopping and its onstop handler is this stop()'s), every other
\* await of stop() being an external call that returns; and a stop() that has ended
\* ended saved or failed.
C35_StopCompletes ==
  \A t \in Tasks :
    task[t].kind = "stop"
      => /\ task[t].pc = "t_onstop"
              => /\ dev.recState[task[t].mr] = "stopping"
                 /\ dev.recOnstop[task[t].mr] = t
         /\ task[t].pc = "done" => task[t].out \in {"saved", "failed"}
\* C36: when no start() and no stop() is suspended, uiStatus is RECORDING exactly
\* when isRecording is true, exactly when a capture backend is active (a recorder
\* recording, an audio graph running, or the native facility recording).
BackendActive ==
  \/ dev.nativeRecording
  \/ \E t \in Tasks : dev.recState[t] = "recording" \/ dev.ctxState[t] = "running"
C36_QuiescentAgreement ==
  ~Busy => /\ (uiStatus = "RECORDING") <=> isRecording
           /\ isRecording <=> BackendActive
\* C37: at the step where a web stop() ends in SAVED, the session it finalized holds
\* no capture resource any more: its stream's tracks are stopped, its recorder is not
\* recording, its audio graph is closed, and no ref names its recorder, stream or
\* audio context.
C37_SavedReleasesResources ==
  [][ \A t \in Tasks :
        (task[t].kind = "stop" /\ task[t].out # "saved" /\ task'[t].out = "saved"
           /\ IsWeb /\ task[t].sess # 0)
          => /\ ~dev'.streamLive[task[t].sess]
             /\ dev'.recState[task[t].sess] # "recording"
             /\ dev'.ctxState[task[t].sess] # "running"
             /\ refs'.mediaRecorderRef # task[t].sess
             /\ refs'.mediaStreamRef # task[t].sess
             /\ refs'.audioCtxRef # task[t].sess ]_vars
\* C38: a step sets SAVED, hands a record to onSaved (App's list changes) or changes
\* the index only as the end of a stop() whose index write has just resolved: the
\* record then heads the index, its payload file is in the store, and App's list
\* gains that record exactly once.
C38_SavedAfterBothWrites ==
  [][ ((uiStatus' = "SAVED" /\ uiStatus # "SAVED") \/ notes' # notes \/ index' # index)
        => \E t \in Tasks :
             /\ task[t].kind = "stop" /\ task[t].pc = "t_write" /\ task'[t].out = "saved"
             /\ uiStatus' = "SAVED"
             /\ index'.present /\ Head(index'.notes) = task[t].note
             /\ PayloadOf(task[t].note) # {}
             /\ notes' = <<task[t].note>> \o notes ]_vars
\* a stop() has ended saved: its record heads the index, has its payload, and is in
\* App's list once
C38_Witness ==
  \E t \in Tasks :
    /\ task[t].kind = "stop" /\ task[t].out = "saved"
    /\ uiStatus = "SAVED"
    /\ index.present /\ Head(index.notes).id = task[t].id
    /\ PayloadOf(Head(index.notes)) # {}
    /\ Cardinality({ i \in 1..Len(notes) : notes[i].id = task[t].id }) = 1

\* C39: once nothing is left to run (the mount-time load is done, no start() or
\* stop() is suspended), the list App holds is the persisted index: the same
\* records in the same order.
C39_NotesMatchIndex ==
  (mount.read = "done" /\ ~Busy) => notes = (IF index.present THEN index.notes ELSE <<>>)
====
